---------------------------- MODULE Spec2Model ----------------------------
(***************************************************************************)
(* The idempotent wallet / inventory engine of src/src/tools.py            *)
(* (add_funds, purchase) over the SQLite store opened by src/src/db.py and *)
(* provisioned by src/src/seed_db.py.                                      *)
(*                                                                         *)
(* Every caller is a process running one call at a time on a connection    *)
(* of its own.  A call is a sequence of SQL statements; one action models  *)
(* one statement (or one group of statements no other connection can       *)
(* observe apart).  Statements outside a transaction read the committed    *)
(* store.  BEGIN IMMEDIATE takes the database's single write lock; the     *)
(* writes of a transaction stay in the connection's write set until        *)
(* commit() applies them or rollback() discards them.                      *)
(***************************************************************************)
EXTENDS Integers, Sequences, FiniteSets, TLC

(***************************************************************************)
(* Bounds                                                                  *)
(***************************************************************************)
\* Number of calls started in one behaviour; each call draws fresh uuids.
MaxCalls == 3

\* The concurrent callers (one connection each).
Procs == {"c1", "c2"}

(***************************************************************************)
(* The provisioned store (src/src/seed_db.py), restricted to two users and *)
(* two products.                                                           *)
(***************************************************************************)
Users == {"u_1001", "u_1002"}

SeedWallets == [u \in Users |-> IF u = "u_1001" THEN 2500 ELSE 1200]

ProductIds == {"p_2001", "p_2002"}

\* p_2001 is seeded with 25 units; the model stocks 2 so that the last unit
\* is reachable within MaxCalls.
SeedProducts ==
    [p \in ProductIds |->
        IF p = "p_2001"
          THEN [name |-> <<"U", "S", "B", "-", "C", " ", "C", "a", "b", "l", "e",
                           " ", "(", "1", "m", ")">>,
                price_cents |-> 899, inventory |-> 2]
          ELSE [name |-> <<"W", "i", "r", "e", "l", "e", "s", "s", " ",
                           "M", "o", "u", "s", "e">>,
                price_cents |-> 1999, inventory |-> 12]]

NoId == <<>>

SeedOrderId == <<"o", 0>>

SeedOrders ==
    {[order_id |-> SeedOrderId, user_id |-> "u_1001", created_at |-> 0,
      status |-> "PLACED", total_cents |-> 899]}

SeedOrderItems ==
    {[order_id |-> SeedOrderId, product_id |-> "p_2001", quantity |-> 1,
      unit_price_cents |-> 899]}

SeedLedger ==
    {[tx_id |-> <<"tx", 0>>, user_id |-> "u_1001", kind |-> "PURCHASE",
      amount_cents |-> -899, client_request_id |-> "seed",
      order_id |-> SeedOrderId, product_id |-> "", quantity |-> 0]}

(***************************************************************************)
(* The calls the callers make.                                             *)
(***************************************************************************)
RequestIds == {"r1", "r2"}

Call_(op, user_id, amount_cents, product_id, quantity, client_request_id) ==
    [op |-> op, user_id |-> user_id, amount_cents |-> amount_cents,
     product_id |-> product_id, quantity |-> quantity,
     client_request_id |-> client_request_id]

AddFunds(user_id, amount_cents, client_request_id) ==
    Call_("add_funds", user_id, amount_cents, "", 0, client_request_id)

Purchase(user_id, product_id, quantity, client_request_id) ==
    Call_("purchase", user_id, 0, product_id, quantity, client_request_id)

AddFundsCalls ==
    {AddFunds("u_1002", 800, r) : r \in RequestIds}
    \cup {AddFunds("u_1001", 800, "r1"),
          AddFunds("u_1002", 0, "r1"),
          AddFunds("u_9999", 800, "r1")}

PurchaseCalls ==
    {Purchase("u_1002", "p_2001", 1, r) : r \in RequestIds}
    \cup {Purchase("u_1002", "p_2001", 2, "r2"),
          Purchase("u_1002", "p_2002", 1, "r1"),
          Purchase("u_1001", "p_2001", 2, "r1"),
          Purchase("u_1001", "p_2001", 1, "r2"),
          Purchase("u_1002", "p_2001", 0, "r1"),
          Purchase("u_9999", "p_2001", 1, "r1"),
          Purchase("u_1002", "p_9999", 1, "r1")}

Calls == AddFundsCalls \cup PurchaseCalls

NoCall ==
    [op |-> "", user_id |-> "", amount_cents |-> 0, product_id |-> "",
     quantity |-> 0, client_request_id |-> ""]

(***************************************************************************)
(* State                                                                   *)
(***************************************************************************)
VARIABLES
    wallets,      \* wallets.balance_cents by user_id         (committed)
    products,     \* products.price_cents / inventory by id   (committed)
    orders,       \* rows of orders                           (committed)
    order_items,  \* rows of order_items                      (committed)
    ledger,       \* rows of ledger                           (committed)
    writer,       \* the connection holding the write lock, or ""
    pc,           \* each caller's position in its call
    call,         \* each caller's arguments
    uuid,         \* the number the call's uuid4() values are built from
    loc,          \* each caller's local variables
    pend,         \* each connection's uncommitted writes
    resp,         \* what each caller's last call returned or raised
    ncalls,       \* calls started so far
    first,        \* history: the call that recorded each client_request_id,
                  \* its response, how many calls committed under that id,
                  \* the amounts committed on its wallet later, and
                  \* whether a call under that id was refused (ValueError)
                  \* before any committed
    rule,         \* the RuleAgent: pending_purchase and pending_topup
    turn,         \* history: the RuleAgent's last turn, with the tools it called
    llm,          \* the StoreAgent: its position in _chat_gemini, and history
    router        \* the ChatRouter: mode and _auto_locked_to_rule, and history

store_vars == <<wallets, products, orders, order_items, ledger>>

\* The two chat front ends.
agent_vars == <<rule, turn, llm, router>>

\* The callers that use the tool interface directly.
caller_vars == <<writer, pc, call, uuid, loc, pend, resp, first>>

vars ==
    <<wallets, products, orders, order_items, ledger, writer, pc, call, uuid,
      loc, pend, resp, ncalls, first, rule, turn, llm, router>>

\* The committed store as one value.
Store ==
    [wallets |-> wallets, products |-> products, orders |-> orders,
     order_items |-> order_items, ledger |-> ledger]

SetStore(s) ==
    /\ wallets' = s.wallets
    /\ products' = s.products
    /\ orders' = s.orders
    /\ order_items' = s.order_items
    /\ ledger' = s.ledger

\* A connection's write set: the rows its open transaction has written.
NoWrites ==
    [wallets |-> {}, inventory |-> {}, orders |-> {}, order_items |-> {},
     ledger |-> {}]

NoLocals ==
    [existing |-> {}, bal_before |-> 0, bal_after |-> 0, price_cents |-> 0,
     inventory |-> 0, total_cents |-> 0, repeat |-> FALSE]

\* A response.  replay, repeat and discarded are history: the call took the
\* idempotent-replay path; the call repeated, argument for argument, the call
\* that had recorded its client_request_id before it started; the call's
\* rollback discarded writes; the client_request_id of the call that held
\* the write lock when this one was refused it.
NoResp ==
    [status |-> "none", err |-> "", op |-> "", user_id |-> "",
     replay |-> FALSE, repeat |-> FALSE, discarded |-> FALSE,
     blocked_by |-> "", added_cents |-> 0,
     new_balance_cents |-> 0, tx_id |-> NoId, order_id |-> NoId,
     product_id |-> "", quantity |-> 0, unit_price_cents |-> 0,
     total_cents |-> 0]

\* The response of call c with locals l, before its payload is filled in.
Response(c, l) ==
    [NoResp EXCEPT !.op = c.op, !.user_id = c.user_id, !.repeat = l.repeat]

\* The errors a call is refused with: raise ValueError(...).
ValueErrors ==
    {"InvalidAmount", "InvalidQuantity", "UnknownUser", "UnknownProduct",
     "InsufficientInventory", "InsufficientFunds"}

\* The call raised e.
Error(c, l, e) == [Response(c, l) EXCEPT !.status = "error", !.err = e]

TxId(n) == <<"tx", n>>

OrderId(n) == <<"o", n>>


(***************************************************************************)
(* Store helpers                                                           *)
(***************************************************************************)
\* _ensure_user_exists: the users table is written by the seed only.
EnsureUserExists(user_id) == user_id \in Users

\* _get_wallet_balance
GetWalletBalance(s, user_id) == s.wallets[user_id]

\* Mutant: the lookup never finds the recorded entry.
GetLedgerByClientRequest_Miss(s, client_request_id) == {}

\* _get_ledger_by_client_request: the rows fetchone() may return.
GetLedgerByClientRequest(s, client_request_id) ==
    {e \in s.ledger : e.client_request_id = client_request_id}

\* Mutant: the schema without the UNIQUE constraint.
UniqueViolation_Never(s, client_request_id) == FALSE

\* ledger.client_request_id is declared UNIQUE by the schema: does the
\* INSERT of a row carrying client_request_id violate it?
UniqueViolation(s, client_request_id) ==
    \E e \in s.ledger : e.client_request_id = client_request_id

\* The value an UPDATE ... SET col = v WHERE key = k left for key k, if any.
Written(ws, k, old) ==
    IF \E w \in ws : w[1] = k THEN (CHOOSE w \in ws : w[1] = k)[2] ELSE old

\* Mutant: a new order overwrites the previous order row of its user.
Apply_OrderPerUser(s, w) ==
    [wallets |-> [u \in DOMAIN s.wallets |-> Written(w.wallets, u, s.wallets[u])],
     products |->
        [p \in DOMAIN s.products |->
            [s.products[p] EXCEPT
                !.inventory = Written(w.inventory, p, s.products[p].inventory)]],
     orders |-> {o \in s.orders : \A x \in w.orders : x.user_id # o.user_id}
                \cup w.orders,
     order_items |-> s.order_items \cup w.order_items,
     ledger |-> s.ledger \cup w.ledger]

\* The store with a write set applied: what conn.commit() makes durable and
\* what the connection itself reads inside its transaction.
Apply(s, w) ==
    [wallets |-> [u \in DOMAIN s.wallets |-> Written(w.wallets, u, s.wallets[u])],
     products |->
        [p \in DOMAIN s.products |->
            [s.products[p] EXCEPT
                !.inventory = Written(w.inventory, p, s.products[p].inventory)]],
     orders |-> s.orders \cup w.orders,
     order_items |-> s.order_items \cup w.order_items,
     ledger |-> s.ledger \cup w.ledger]

\* conn.commit()
Committed(s, w) == Apply(s, w)

\* Mutant: the except clause makes the writes issued so far durable.
RolledBack_Commits(s, w) == Apply(s, w)

\* except Exception: conn.rollback(); raise -- the write set is discarded.
RolledBack(s, w) == s

\* Mutant: the transaction begins without taking the write lock.
LockFree_Always == TRUE

\* BEGIN IMMEDIATE succeeds only while no other connection holds the lock.
LockFree == writer = ""

\* What connection p reads: the committed store, and inside its own
\* transaction its own writes too.
View(p) == IF writer = p THEN Apply(Store, pend[p]) ELSE Store

(***************************************************************************)
(* Text: a string is the sequence of its characters.                       *)
(***************************************************************************)
UpperCase ==
    <<"A", "B", "C", "D", "E", "F", "G", "H", "I", "J", "K", "L", "M",
      "N", "O", "P", "Q", "R", "S", "T", "U", "V", "W", "X", "Y", "Z">>

LowerCase ==
    <<"a", "b", "c", "d", "e", "f", "g", "h", "i", "j", "k", "l", "m",
      "n", "o", "p", "q", "r", "s", "t", "u", "v", "w", "x", "y", "z">>

Digits == <<"0", "1", "2", "3", "4", "5", "6", "7", "8", "9">>

\* The characters of the model in the order of their code points.
CodePoints ==
    <<" ", "$", "%", "(", ")", "-", ".">> \o Digits \o UpperCase
    \o <<"_">> \o LowerCase

\* The position of x in the sequence q (0 when absent).
IndexOf(q, x) ==
    IF \E i \in 1..Len(q) : q[i] = x
      THEN CHOOSE i \in 1..Len(q) : q[i] = x /\ \A j \in 1..(i - 1) : q[j] # x
      ELSE 0

\* str.lower() / SQL LOWER() on one character and on a string.
LowerChar(ch) ==
    IF IndexOf(UpperCase, ch) > 0 THEN LowerCase[IndexOf(UpperCase, ch)] ELSE ch

Lower(t) == [i \in 1..Len(t) |-> LowerChar(t[i])]

IsSpace(ch) == ch = " "

\* str.strip()
RECURSIVE Strip(_)
Strip(t) ==
    IF t = <<>> THEN t
    ELSE IF IsSpace(Head(t)) THEN Strip(Tail(t))
    ELSE IF IsSpace(t[Len(t)]) THEN Strip(SubSeq(t, 1, Len(t) - 1))
    ELSE t

\* str.startswith(prefix), str.endswith(suffix), `needle in t`
StartsWith(t, prefix) ==
    Len(prefix) <= Len(t) /\ SubSeq(t, 1, Len(prefix)) = prefix

EndsWith(t, suffix) ==
    Len(suffix) <= Len(t)
    /\ SubSeq(t, Len(t) - Len(suffix) + 1, Len(t)) = suffix

Contains(t, needle) ==
    \E i \in 1..(Len(t) - Len(needle) + 1) :
        SubSeq(t, i, i + Len(needle) - 1) = needle

\* str.replace(old, new) for single characters.
ReplaceChar(t, old, new) ==
    [i \in 1..Len(t) |-> IF t[i] = old THEN new ELSE t[i]]

\* str.split(): the maximal runs of non-space characters, in order.
RECURSIVE Split(_)
Split(t) ==
    IF t = <<>> THEN <<>>
    ELSE IF IsSpace(Head(t)) THEN Split(Tail(t))
    ELSE LET n == IF \E i \in 1..Len(t) : IsSpace(t[i])
                    THEN (CHOOSE i \in 1..Len(t) :
                            IsSpace(t[i]) /\ \A j \in 1..(i - 1) : ~IsSpace(t[j])) - 1
                    ELSE Len(t)
         IN  <<SubSeq(t, 1, n)>> \o Split(SubSeq(t, n + 1, Len(t)))

\* t < u in the byte order SQLite's ORDER BY uses for text.
RECURSIVE TextLess(_, _)
TextLess(t, u) ==
    IF u = <<>> THEN FALSE
    ELSE IF t = <<>> THEN TRUE
    ELSE IF Head(t) = Head(u) THEN TextLess(Tail(t), Tail(u))
    ELSE IndexOf(CodePoints, Head(t)) < IndexOf(CodePoints, Head(u))

\* SQLite's `text LIKE pattern`: % matches any run of characters, _ any one
\* character, letters match without regard to case.
RECURSIVE Like(_, _)
Like(text, pattern) ==
    IF pattern = <<>> THEN text = <<>>
    ELSE IF Head(pattern) = "%"
      THEN Like(text, Tail(pattern))
           \/ (text # <<>> /\ Like(Tail(text), pattern))
    ELSE /\ text # <<>>
         /\ Head(pattern) = "_" \/ LowerChar(Head(pattern)) = LowerChar(Head(text))
         /\ Like(Tail(text), Tail(pattern))

(***************************************************************************)
(* Read accessors: what each returns (or raises) on store s.               *)
(***************************************************************************)
\* A read accessor raised e.
ReadError(op, e) == [status |-> "error", err |-> e, op |-> op]

\* The argument None.
None == <<"None">>

\* _row_to_product
RowToProduct(s, product_id) ==
    [product_id |-> product_id, name |-> s.products[product_id].name,
     price_cents |-> s.products[product_id].price_cents,
     inventory |-> s.products[product_id].inventory]

\* ORDER BY name ASC: the products P of store s as a sequence.
RECURSIVE OrderByName(_, _)
OrderByName(s, P) ==
    IF P = {} THEN <<>>
    ELSE LET m == CHOOSE x \in P :
                    \A y \in P \ {x} :
                       TextLess(s.products[x].name, s.products[y].name)
         IN  <<RowToProduct(s, m)>> \o OrderByName(s, P \ {m})

\* WHERE LOWER(name) LIKE '%' || w || '%'
NameLike(s, product_id, w) ==
    Like(Lower(s.products[product_id].name), <<"%">> \o w \o <<"%">>)

\* cables -> cable: the trailing s of a word longer than 3 is dropped.
StripPlural(w) ==
    IF Len(w) > 3 /\ EndsWith(w, <<"s">>) THEN SubSeq(w, 1, Len(w) - 1) ELSE w

\* search_products
SearchProductsResult(s, query) ==
    LET all == DOMAIN s.products
        q_raw == Lower(Strip(query))
        rows == {x \in all : NameLike(s, x, q_raw)}
        split == Split(ReplaceChar(q_raw, "-", " "))
        words == {StripPlural(split[i]) : i \in 1..Len(split)}
        fallback == {x \in all : \E w \in words : NameLike(s, x, w)}
        found == IF query = None \/ Strip(query) = <<>> THEN all
                 ELSE IF rows # {} THEN rows
                 ELSE fallback
    IN  [status |-> "ok", err |-> "", op |-> "search_products",
         products |-> OrderByName(s, found)]

\* get_product
GetProductResult(s, product_id) ==
    IF product_id \notin DOMAIN s.products
      THEN ReadError("get_product", "UnknownProduct")
      ELSE [status |-> "ok", err |-> "", op |-> "get_product",
            product |-> RowToProduct(s, product_id)]

\* get_balance
GetBalanceResult(s, user_id) ==
    IF ~EnsureUserExists(user_id)
      THEN ReadError("get_balance", "UnknownUser")
      ELSE [status |-> "ok", err |-> "", op |-> "get_balance",
            user_id |-> user_id,
            balance_cents |-> GetWalletBalance(s, user_id)]

\* ORDER BY created_at DESC: the order rows O as a sequence.
RECURSIVE OrderByCreatedAtDesc(_)
OrderByCreatedAtDesc(O) ==
    IF O = {} THEN <<>>
    ELSE LET m == CHOOSE x \in O : \A y \in O : y.created_at <= x.created_at
         IN  <<m>> \o OrderByCreatedAtDesc(O \ {m})

\* Mutant: the LIMIT clause is missing.
Limit_All(q, n) == q

\* LIMIT n
Limit(q, n) == SubSeq(q, 1, IF Len(q) < n THEN Len(q) ELSE n)

\* Mutant: the join reports the product's price instead of the item's.
OrderItems_CurrentPrice(s, order_id) ==
    {[product_id |-> i.product_id, name |-> s.products[i.product_id].name,
      quantity |-> i.quantity,
      unit_price_cents |-> s.products[i.product_id].price_cents] :
        i \in {x \in s.order_items :
                  x.order_id = order_id /\ x.product_id \in DOMAIN s.products}}

\* The items of an order: order_items joined with products for the name.
OrderItems(s, order_id) ==
    {[product_id |-> i.product_id, name |-> s.products[i.product_id].name,
      quantity |-> i.quantity, unit_price_cents |-> i.unit_price_cents] :
        i \in {x \in s.order_items :
                  x.order_id = order_id /\ x.product_id \in DOMAIN s.products}}

\* get_orders
GetOrdersResult(s, user_id, limit) ==
    IF limit <= 0 \/ limit > 50
      THEN ReadError("get_orders", "InvalidLimit")
    ELSE IF ~EnsureUserExists(user_id)
      THEN ReadError("get_orders", "UnknownUser")
    ELSE LET order_rows ==
                 Limit(OrderByCreatedAtDesc(
                           {o \in s.orders : o.user_id = user_id}), limit)
         IN  [status |-> "ok", err |-> "", op |-> "get_orders",
              user_id |-> user_id,
              orders |->
                 [k \in 1..Len(order_rows) |->
                    [order_id |-> order_rows[k].order_id,
                     created_at |-> order_rows[k].created_at,
                     status |-> order_rows[k].status,
                     total_cents |-> order_rows[k].total_cents,
                     items |-> OrderItems(s, order_rows[k].order_id)]]]

(***************************************************************************)
(* The chat front ends before their first turn.                            *)
(***************************************************************************)
\* RuleAgent.__init__: an Optional field is the set of its values, {} for
\* None.
NoPending == [pending_purchase |-> {}, pending_topup |-> {}]

\* No turn yet.  n counts the turns, text is the user's message, calls the
\* tool calls of the turn in order, reply what handle returned or raised,
\* before the replies of the session's earlier turns, oldest first.
NoTurn ==
    [n |-> 0, text |-> <<>>, user_id |-> "", calls |-> <<>>,
     reply |-> [kind |-> "", err |-> ""], before |-> <<>>]

\* StoreAgent.__init__ with an empty history.  turns counts the chat turns,
\* step the model calls of the current turn (0: no turn is running),
\* confirmed whether a user message of an earlier turn was a confirmation,
\* dispatched the tool calls the current turn has executed, in order,
\* reply what the last turn returned, and err the message of the exception
\* the last call of the model raised.
NoChat ==
    [turns |-> 0, step |-> 0, text |-> <<>>, confirmed |-> FALSE,
     dispatched |-> <<>>, reply |-> "", err |-> <<>>]

\* ChatRouter(mode=mode).  turns counts the calls of respond, answered is
\* the agent the last call was routed to.
Router(mode) ==
    [mode |-> mode, auto_locked_to_rule |-> FALSE, turns |-> 0,
     answered |-> ""]

(***************************************************************************)
(* Initial state: the store as seed() leaves it, every caller idle.        *)
(***************************************************************************)
Seeded ==
    /\ wallets = SeedWallets
    /\ products = SeedProducts
    /\ orders = SeedOrders
    /\ order_items = SeedOrderItems
    /\ ledger = SeedLedger
    /\ writer = ""
    /\ pc = [p \in Procs |-> "idle"]
    /\ call = [p \in Procs |-> NoCall]
    /\ uuid = [p \in Procs |-> 0]
    /\ loc = [p \in Procs |-> NoLocals]
    /\ pend = [p \in Procs |-> NoWrites]
    /\ resp = [p \in Procs |-> NoResp]
    /\ ncalls = 0
    /\ first = [r \in RequestIds |->
                    [call |-> NoCall, resp |-> NoResp, commits |-> 0,
                     later |-> 0, refused |-> FALSE]]
    /\ rule = NoPending
    /\ turn = NoTurn
    /\ llm = NoChat

\* mode: Mode = "auto"
Init == Seeded /\ router = Router("auto")

\* The call of p ends (finally: conn.close()): it returns r, or raises when
\* r.status = "error".  Its arguments and locals are gone.
Finish(p, r) ==
    /\ pc' = [pc EXCEPT ![p] = "idle"]
    /\ call' = [call EXCEPT ![p] = NoCall]
    /\ uuid' = [uuid EXCEPT ![p] = 0]
    /\ loc' = [loc EXCEPT ![p] = NoLocals]
    /\ resp' = [resp EXCEPT ![p] = r]

\* Mutant: the except clause re-raises without rollback and the connection
\* is left open: the write lock stays with the failed call.
Raise_KeepsLock(p, e) ==
    /\ UNCHANGED <<store_vars, writer>>
    /\ pend' = [pend EXCEPT ![p] = NoWrites]
    /\ Finish(p, [Error(call[p], loc[p], e) EXCEPT
                     !.discarded = pend[p] # NoWrites,
                     !.blocked_by = IF e = "Busy"
                                      THEN call[writer].client_request_id
                                      ELSE ""])
    /\ first' = [first EXCEPT ![call[p].client_request_id].refused =
                    @ \/ (e \in ValueErrors
                          /\ first[call[p].client_request_id].commits = 0)]
    /\ UNCHANGED <<ncalls, agent_vars>>

\* The except clause of add_funds and purchase: rollback, then re-raise.
\* A rollback on a connection with no open transaction changes nothing.
Raise(p, e) ==
    /\ SetStore(IF writer = p THEN RolledBack(Store, pend[p]) ELSE Store)
    /\ writer' = IF writer = p THEN "" ELSE writer
    /\ pend' = [pend EXCEPT ![p] = NoWrites]
    /\ Finish(p, [Error(call[p], loc[p], e) EXCEPT
                     !.discarded = pend[p] # NoWrites,
                     !.blocked_by = IF e = "Busy"
                                      THEN call[writer].client_request_id
                                      ELSE ""])
    /\ first' = [first EXCEPT ![call[p].client_request_id].refused =
                    @ \/ (e \in ValueErrors
                          /\ first[call[p].client_request_id].commits = 0)]
    /\ UNCHANGED <<ncalls, agent_vars>>

(***************************************************************************)
(* add_funds / purchase up to the idempotency lookup                       *)
(***************************************************************************)
\* A caller starts a call: argument validation, connect, user check and
\* existing = _get_ledger_by_client_request(conn, client_request_id), the
\* call's first read of anything another call can change.
Call(p, c) ==
    /\ pc[p] = "idle"
    /\ ncalls < MaxCalls
    /\ ncalls' = ncalls + 1
    /\ UNCHANGED <<store_vars, writer, pend, agent_vars>>
    /\ LET l == [NoLocals EXCEPT !.repeat =
                    /\ first[c.client_request_id].commits = 1
                    /\ first[c.client_request_id].call = c]
           found == GetLedgerByClientRequest(Store, c.client_request_id)
           invalid ==
               IF c.op = "add_funds" /\ c.amount_cents <= 0
                 THEN "InvalidAmount"
               ELSE IF c.op = "purchase" /\ c.quantity <= 0
                 THEN "InvalidQuantity"
               ELSE IF ~EnsureUserExists(c.user_id)
                 THEN "UnknownUser"
               ELSE ""
       IN  IF invalid # ""
             THEN /\ resp' = [resp EXCEPT ![p] = Error(c, l, invalid)]
                  /\ first' = [first EXCEPT ![c.client_request_id].refused =
                                  @ \/ first[c.client_request_id].commits = 0]
                  /\ UNCHANGED <<pc, call, uuid, loc>>
             ELSE /\ call' = [call EXCEPT ![p] = c]
                  /\ UNCHANGED first
                  /\ uuid' = [uuid EXCEPT ![p] = ncalls + 1]
                  /\ resp' = [resp EXCEPT ![p] = NoResp]
                  /\ IF found = {}
                       THEN /\ loc' = [loc EXCEPT ![p] = l]
                            /\ pc' = [pc EXCEPT ![p] = "begin"]
                       ELSE /\ \E e \in found :
                                 loc' = [loc EXCEPT ![p] =
                                            [l EXCEPT !.existing = {e}]]
                            /\ pc' = [pc EXCEPT ![p] = "replay"]

\* Mutant: the replay adds the recorded amount to the balance it reports.
AddFundsReplayResponse_AddsAgain(c, l, existing, bal) ==
    [Response(c, l) EXCEPT !.status = "ok", !.replay = TRUE,
                           !.added_cents = existing.amount_cents,
                           !.new_balance_cents = bal + existing.amount_cents,
                           !.tx_id = existing.tx_id]

\* add_funds, existing is not None: the recorded amount and tx_id, the
\* balance as it is now.
AddFundsReplayResponse(c, l, existing, bal) ==
    [Response(c, l) EXCEPT !.status = "ok", !.replay = TRUE,
                           !.added_cents = existing.amount_cents,
                           !.new_balance_cents = bal,
                           !.tx_id = existing.tx_id]

ReplayAddFunds(p) ==
    /\ pc[p] = "replay"
    /\ call[p].op = "add_funds"
    /\ LET existing == CHOOSE e \in loc[p].existing : TRUE
           bal == GetWalletBalance(View(p), call[p].user_id)
       IN  Finish(p, AddFundsReplayResponse(call[p], loc[p], existing, bal))
    /\ UNCHANGED <<store_vars, writer, pend, ncalls, first, agent_vars>>

\* Mutant: the replay reports the product and quantity of its own arguments.
PurchaseReplayResponse_FromArgs(c, l, s, order_id, bal) ==
    LET item == CHOOSE i \in s.order_items : i.order_id = order_id
        ord == CHOOSE o \in s.orders : o.order_id = order_id
    IN  [Response(c, l) EXCEPT !.status = "ok", !.replay = TRUE,
                               !.order_id = order_id,
                               !.product_id = c.product_id,
                               !.quantity = c.quantity,
                               !.unit_price_cents = item.unit_price_cents,
                               !.total_cents = ord.total_cents,
                               !.new_balance_cents = bal]

\* purchase, existing is not None: the order named by the entry's metadata,
\* its first item row, the order's total, the balance as it is now.
PurchaseReplayResponse(c, l, s, order_id, bal) ==
    LET item == CHOOSE i \in s.order_items : i.order_id = order_id
        ord == CHOOSE o \in s.orders : o.order_id = order_id
    IN  [Response(c, l) EXCEPT !.status = "ok", !.replay = TRUE,
                               !.order_id = order_id,
                               !.product_id = item.product_id,
                               !.quantity = item.quantity,
                               !.unit_price_cents = item.unit_price_cents,
                               !.total_cents = ord.total_cents,
                               !.new_balance_cents = bal]

ReplayPurchase(p) ==
    /\ pc[p] = "replay"
    /\ call[p].op = "purchase"
    /\ LET existing == CHOOSE e \in loc[p].existing : TRUE
           s == View(p)
       IN  IF existing.order_id = NoId
             THEN Raise(p, "MissingOrderId")
           ELSE IF ~\E i \in s.order_items : i.order_id = existing.order_id
             THEN Raise(p, "OrderMissingItems")
           ELSE /\ Finish(p, PurchaseReplayResponse(
                              call[p], loc[p], s, existing.order_id,
                              GetWalletBalance(s, call[p].user_id)))
                /\ UNCHANGED <<store_vars, writer, pend, ncalls, first, agent_vars>>

(***************************************************************************)
(* The transaction                                                         *)
(***************************************************************************)
\* One statement that neither raises nor ends the call.
Step(p, next, locals, writes) ==
    /\ pc' = [pc EXCEPT ![p] = next]
    /\ loc' = [loc EXCEPT ![p] = locals]
    /\ pend' = [pend EXCEPT ![p] = writes]
    /\ UNCHANGED <<store_vars, call, uuid, resp, ncalls, first, agent_vars>>

\* conn.execute("BEGIN IMMEDIATE;") takes the write lock.
Begin(p) ==
    /\ pc[p] = "begin"
    /\ LockFree
    /\ writer' = p
    /\ Step(p, IF call[p].op = "add_funds" THEN "af_read" ELSE "p_prod",
            loc[p], pend[p])

\* BEGIN IMMEDIATE while another connection holds the lock: sqlite3 waits
\* for the connection's timeout and raises "database is locked".
\* Mutant: no timeout, the connection goes on waiting for the lock.
Busy_NoTimeout(p) ==
    /\ pc[p] = "begin"
    /\ writer \notin {"", p}
    /\ UNCHANGED vars

Busy(p) ==
    /\ pc[p] = "begin"
    /\ writer \notin {"", p}
    /\ Raise(p, "Busy")

\* Any statement between BEGIN IMMEDIATE and the end of commit() may raise
\* (I/O error, disk full).
InTransaction ==
    {"af_read", "af_wallet", "af_ledger", "p_prod", "p_bal", "p_wallet",
     "p_inventory", "p_order", "p_item", "p_ledger", "commit"}

StorageFailure(p) ==
    /\ pc[p] \in InTransaction
    /\ Raise(p, "StorageFailure")

\* ---- add_funds ----
\* Mutant: the new balance is the amount, not the old balance plus it.
AddFundsBalAfter_Overwrite(bal_before, amount_cents) == amount_cents

\* bal_after = bal_before + amount_cents
AddFundsBalAfter(bal_before, amount_cents) == bal_before + amount_cents

AddFundsReadBalance(p) ==
    /\ pc[p] = "af_read"
    /\ UNCHANGED writer
    /\ LET bal_before == GetWalletBalance(View(p), call[p].user_id)
       IN  Step(p, "af_wallet",
                [loc[p] EXCEPT !.bal_before = bal_before,
                               !.bal_after =
                                   AddFundsBalAfter(bal_before,
                                                    call[p].amount_cents)],
                pend[p])

\* Mutant: the UPDATE has no WHERE clause.
UpdateWallet_EveryUser(w, user_id, bal_after) ==
    [w EXCEPT !.wallets = {<<u, bal_after>> : u \in Users}]

\* UPDATE wallets SET balance_cents = bal_after WHERE user_id = ?
UpdateWallet(w, user_id, bal_after) ==
    [w EXCEPT !.wallets = {x \in w.wallets : x[1] # user_id}
                          \cup {<<user_id, bal_after>>}]

AddFundsUpdateWallet(p) ==
    /\ pc[p] = "af_wallet"
    /\ UNCHANGED writer
    /\ Step(p, "af_ledger", loc[p],
            UpdateWallet(pend[p], call[p].user_id, loc[p].bal_after))

\* The ledger row add_funds inserts.
TopupEntry(tx_id, c) ==
    [tx_id |-> tx_id, user_id |-> c.user_id, kind |-> "TOPUP",
     amount_cents |-> c.amount_cents,
     client_request_id |-> c.client_request_id,
     order_id |-> NoId, product_id |-> "", quantity |-> 0]

\* INSERT INTO ledger(...): raises IntegrityError on a recorded
\* client_request_id.
InsertLedger(p, entry) ==
    IF UniqueViolation(View(p), entry.client_request_id)
      THEN Raise(p, "IntegrityError")
      ELSE /\ UNCHANGED writer
           /\ Step(p, "commit", loc[p],
                   [pend[p] EXCEPT !.ledger = @ \cup {entry}])

AddFundsInsertLedger(p) ==
    /\ pc[p] = "af_ledger"
    /\ InsertLedger(p, TopupEntry(TxId(uuid[p]), call[p]))

AddFundsResponse(c, l, tx_id) ==
    [Response(c, l) EXCEPT !.status = "ok",
                           !.added_cents = c.amount_cents,
                           !.new_balance_cents = l.bal_after,
                           !.tx_id = tx_id]

\* ---- purchase ----
\* if inventory < quantity: raise
InsufficientInventory(inventory, quantity) == inventory < quantity

\* Mutant: the funds check comes before the stock check.
PurchaseReadProduct_FundsFirst(p) ==
    /\ pc[p] = "p_prod"
    /\ LET s == View(p)
           c == call[p]
       IN  IF c.product_id \notin DOMAIN s.products
             THEN Raise(p, "UnknownProduct")
           ELSE IF GetWalletBalance(s, c.user_id) <
                      s.products[c.product_id].price_cents * c.quantity
             THEN Raise(p, "InsufficientFunds")
           ELSE IF InsufficientInventory(s.products[c.product_id].inventory,
                                         c.quantity)
             THEN Raise(p, "InsufficientInventory")
           ELSE /\ UNCHANGED writer
                /\ Step(p, "p_bal",
                        [loc[p] EXCEPT
                           !.price_cents = s.products[c.product_id].price_cents,
                           !.inventory = s.products[c.product_id].inventory],
                        pend[p])

\* SELECT ... FROM products WHERE product_id = ?; the stock check.
PurchaseReadProduct(p) ==
    /\ pc[p] = "p_prod"
    /\ LET s == View(p)
           c == call[p]
       IN  IF c.product_id \notin DOMAIN s.products
             THEN Raise(p, "UnknownProduct")
           ELSE IF InsufficientInventory(s.products[c.product_id].inventory,
                                         c.quantity)
             THEN Raise(p, "InsufficientInventory")
           ELSE /\ UNCHANGED writer
                /\ Step(p, "p_bal",
                        [loc[p] EXCEPT
                           !.price_cents = s.products[c.product_id].price_cents,
                           !.inventory = s.products[c.product_id].inventory],
                        pend[p])

\* Mutant: the quantity is left out of the total.
TotalCents_Unit(price_cents, quantity) == price_cents

\* total_cents = price_cents * quantity
TotalCents(price_cents, quantity) == price_cents * quantity

\* Mutant: the funds check never fails.
InsufficientFunds_Never(bal_before, total_cents) == FALSE

\* if bal_before < total_cents: raise
InsufficientFunds(bal_before, total_cents) == bal_before < total_cents

\* Mutant: the wallet is debited before the funds check, and the failed
\* check leaves the debit in place.
PurchaseReadBalance_DebitFirst(p) ==
    /\ pc[p] = "p_bal"
    /\ LET total_cents == TotalCents(loc[p].price_cents, call[p].quantity)
           bal_before == GetWalletBalance(View(p), call[p].user_id)
       IN  IF InsufficientFunds(bal_before, total_cents)
             THEN /\ SetStore(Committed(Store,
                         UpdateWallet(pend[p], call[p].user_id,
                                      bal_before - total_cents)))
                  /\ writer' = ""
                  /\ pend' = [pend EXCEPT ![p] = NoWrites]
                  /\ Finish(p, Error(call[p], loc[p], "InsufficientFunds"))
                  /\ UNCHANGED <<ncalls, first, agent_vars>>
             ELSE /\ UNCHANGED writer
                  /\ Step(p, "p_wallet",
                          [loc[p] EXCEPT !.total_cents = total_cents,
                                         !.bal_before = bal_before,
                                         !.bal_after = bal_before - total_cents],
                          pend[p])

PurchaseReadBalance(p) ==
    /\ pc[p] = "p_bal"
    /\ LET total_cents == TotalCents(loc[p].price_cents, call[p].quantity)
           bal_before == GetWalletBalance(View(p), call[p].user_id)
       IN  IF InsufficientFunds(bal_before, total_cents)
             THEN Raise(p, "InsufficientFunds")
             ELSE /\ UNCHANGED writer
                  /\ Step(p, "p_wallet",
                          [loc[p] EXCEPT !.total_cents = total_cents,
                                         !.bal_before = bal_before,
                                         !.bal_after = bal_before - total_cents],
                          pend[p])

PurchaseUpdateWallet(p) ==
    /\ pc[p] = "p_wallet"
    /\ UNCHANGED writer
    /\ Step(p, "p_inventory", loc[p],
            UpdateWallet(pend[p], call[p].user_id, loc[p].bal_after))

\* new_inventory = inventory - quantity;
\* UPDATE products SET inventory = new_inventory WHERE product_id = ?
UpdateInventory(w, product_id, inventory, quantity) ==
    [w EXCEPT !.inventory = {x \in w.inventory : x[1] # product_id}
                            \cup {<<product_id, inventory - quantity>>}]

PurchaseUpdateInventory(p) ==
    /\ pc[p] = "p_inventory"
    /\ UNCHANGED writer
    /\ Step(p, "p_order", loc[p],
            UpdateInventory(pend[p], call[p].product_id, loc[p].inventory,
                            call[p].quantity))

\* now = _utc_now_iso(), read inside the transaction: a clock that has
\* ticked once for every order placed before (the write lock serialises the
\* purchases, so their timestamps increase in commit order).
UtcNow(s) == Cardinality(s.orders)

\* The orders row purchase inserts.
OrderRow(order_id, c, now, total_cents) ==
    [order_id |-> order_id, user_id |-> c.user_id, created_at |-> now,
     status |-> "PLACED", total_cents |-> total_cents]

PurchaseInsertOrder(p) ==
    /\ pc[p] = "p_order"
    /\ UNCHANGED writer
    /\ Step(p, "p_item", loc[p],
            [pend[p] EXCEPT !.orders =
                @ \cup {OrderRow(OrderId(uuid[p]), call[p], UtcNow(Store),
                                 loc[p].total_cents)}])

\* Mutant: the item row always records one unit.
OrderItemRow_OneUnit(order_id, c, price_cents) ==
    [order_id |-> order_id, product_id |-> c.product_id,
     quantity |-> 1, unit_price_cents |-> price_cents]

\* The order_items row purchase inserts.
OrderItemRow(order_id, c, price_cents) ==
    [order_id |-> order_id, product_id |-> c.product_id,
     quantity |-> c.quantity, unit_price_cents |-> price_cents]

PurchaseInsertItem(p) ==
    /\ pc[p] = "p_item"
    /\ UNCHANGED writer
    /\ Step(p, "p_ledger", loc[p],
            [pend[p] EXCEPT !.order_items =
                @ \cup {OrderItemRow(OrderId(uuid[p]), call[p],
                                     loc[p].price_cents)}])

\* Mutant: the debit is recorded with the sign of a credit.
PurchaseEntry_Credit(tx_id, order_id, c, total_cents) ==
    [tx_id |-> tx_id, user_id |-> c.user_id, kind |-> "PURCHASE",
     amount_cents |-> total_cents,
     client_request_id |-> c.client_request_id,
     order_id |-> order_id, product_id |-> c.product_id,
     quantity |-> c.quantity]

\* The ledger row purchase inserts.
PurchaseEntry(tx_id, order_id, c, total_cents) ==
    [tx_id |-> tx_id, user_id |-> c.user_id, kind |-> "PURCHASE",
     amount_cents |-> -total_cents,
     client_request_id |-> c.client_request_id,
     order_id |-> order_id, product_id |-> c.product_id,
     quantity |-> c.quantity]

PurchaseInsertLedger(p) ==
    /\ pc[p] = "p_ledger"
    /\ InsertLedger(p, PurchaseEntry(TxId(uuid[p]), OrderId(uuid[p]), call[p],
                                     loc[p].total_cents))

PurchaseResponse(c, l, order_id) ==
    [Response(c, l) EXCEPT !.status = "ok",
                           !.order_id = order_id,
                           !.product_id = c.product_id,
                           !.quantity = c.quantity,
                           !.unit_price_cents = l.price_cents,
                           !.total_cents = l.total_cents,
                           !.new_balance_cents = l.bal_after]

\* ---- both ----
\* The sum of the n fields of a set of records.
RECURSIVE Sum(_)
Sum(S) ==
    IF S = {} THEN 0
    ELSE LET x == CHOOSE y \in S : TRUE IN x.n + Sum(S \ {x})

\* The sum of amount_cents over user_id's entries among the ledger rows L.
LedgerSum(L, user_id) ==
    Sum({[k |-> e.tx_id, n |-> e.amount_cents] : e \in {x \in L : x.user_id = user_id}})

\* What the ledger rows of write set w add to user_id's ledger.
CommittedAmount(w, user_id) == LedgerSum(w.ledger, user_id)

\* conn.commit(), then the response of a first call.
Commit(p) ==
    /\ pc[p] = "commit"
    /\ LET r == IF call[p].op = "add_funds"
                  THEN AddFundsResponse(call[p], loc[p], TxId(uuid[p]))
                  ELSE PurchaseResponse(call[p], loc[p], OrderId(uuid[p]))
           id == call[p].client_request_id
       IN  /\ Finish(p, r)
           /\ first' =
                 [x \in RequestIds |->
                    IF x = id
                      THEN IF first[id].commits = 0
                             THEN [call |-> call[p], resp |-> r, commits |-> 1,
                                   later |-> 0, refused |-> first[id].refused]
                             ELSE [first[id] EXCEPT !.commits = @ + 1]
                    ELSE IF first[x].commits > 0
                            /\ first[x].call.user_id = call[p].user_id
                      THEN [first[x] EXCEPT !.later =
                              @ + CommittedAmount(pend[p], call[p].user_id)]
                    ELSE first[x]]
    /\ SetStore(Committed(Store, pend[p]))
    /\ writer' = ""
    /\ pend' = [pend EXCEPT ![p] = NoWrites]
    /\ UNCHANGED <<ncalls, agent_vars>>

Next ==
    \E p \in Procs :
        \/ \E c \in Calls : Call(p, c)
        \/ ReplayAddFunds(p)
        \/ ReplayPurchase(p)
        \/ Begin(p)
        \/ Busy(p)
        \/ StorageFailure(p)
        \/ AddFundsReadBalance(p)
        \/ AddFundsUpdateWallet(p)
        \/ AddFundsInsertLedger(p)
        \/ PurchaseReadProduct(p)
        \/ PurchaseReadBalance(p)
        \/ PurchaseUpdateWallet(p)
        \/ PurchaseUpdateInventory(p)
        \/ PurchaseInsertOrder(p)
        \/ PurchaseInsertItem(p)
        \/ PurchaseInsertLedger(p)
        \/ Commit(p)

Spec == Init /\ [][Next]_vars

(***************************************************************************)
(* A top-up and a purchase contending for the write lock.  sqlite3 bounds   *)
(* the wait of BEGIN IMMEDIATE by the connection's timeout, so a call at    *)
(* BEGIN IMMEDIATE eventually gets the lock or is refused it.               *)
(***************************************************************************)
LockCalls ==
    {AddFunds("u_1002", 800, "r1"), Purchase("u_1002", "p_2001", 1, "r2")}

LockNext ==
    \E p \in Procs :
        \/ \E c \in LockCalls : Call(p, c)
        \/ ReplayAddFunds(p)
        \/ ReplayPurchase(p)
        \/ Begin(p)
        \/ Busy(p)
        \/ StorageFailure(p)
        \/ AddFundsReadBalance(p)
        \/ AddFundsUpdateWallet(p)
        \/ AddFundsInsertLedger(p)
        \/ PurchaseReadProduct(p)
        \/ PurchaseReadBalance(p)
        \/ PurchaseUpdateWallet(p)
        \/ PurchaseUpdateInventory(p)
        \/ PurchaseInsertOrder(p)
        \/ PurchaseInsertItem(p)
        \/ PurchaseInsertLedger(p)
        \/ Commit(p)

LockSpec ==
    /\ Init
    /\ [][LockNext]_vars
    /\ \A p \in Procs : WF_vars(Begin(p) \/ Busy(p))

\* The statements of a started call: each caller is a thread of its own
\* and the statement it is at runs (or raises) once it can.
Runs(p) ==
    \/ ReplayAddFunds(p)
    \/ ReplayPurchase(p)
    \/ Begin(p)
    \/ Busy(p)
    \/ StorageFailure(p)
    \/ AddFundsReadBalance(p)
    \/ AddFundsUpdateWallet(p)
    \/ AddFundsInsertLedger(p)
    \/ PurchaseReadProduct(p)
    \/ PurchaseReadBalance(p)
    \/ PurchaseUpdateWallet(p)
    \/ PurchaseUpdateInventory(p)
    \/ PurchaseInsertOrder(p)
    \/ PurchaseInsertItem(p)
    \/ PurchaseInsertLedger(p)
    \/ Commit(p)

\* The contending calls under fair scheduling of the callers.
FairSpec ==
    /\ Init
    /\ [][LockNext]_vars
    /\ \A p \in Procs : WF_vars(Runs(p))

(***************************************************************************)
(* The whole tool interface: the two mutators, the four read accessors,    *)
(* and a price changed out of band (by a statement of another program on   *)
(* the same database).                                                     *)
(***************************************************************************)
\* The mutating calls made next to the reads.
ToolCalls ==
    {Purchase("u_1001", "p_2001", 1, "r1"),
     Purchase("u_1001", "p_2001", 1, "r2"),
     AddFunds("u_1002", 800, "r2")}

\* The arguments the read accessors are called with.
BalanceUsers == {"u_1002", "u_9999"}

ProductArgs == {"p_2001", "p_9999"}

Queries == {<<"c", "a", "b", "l", "e", "s">>, <<"u", "s", "b", "_", "c">>}

OrdersArgs ==
    {<<"u_1001", 5>>, <<"u_1001", 1>>, <<"u_1001", 0>>, <<"u_1001", 51>>,
     <<"u_1002", 50>>, <<"u_9999", 5>>, <<"u_9999", 0>>}

\* The prices a product is given out of band.
NewPrices == {999}

\* The products whose price is changed out of band.
Repriced == {"p_2001"}

\* Mutant: a read marks the orders as viewed.
Read_MarksViewed(p, r) ==
    /\ pc[p] = "idle"
    /\ ncalls < MaxCalls
    /\ ncalls' = ncalls + 1
    /\ resp' = [resp EXCEPT ![p] = r]
    /\ orders' = {[o EXCEPT !.status = "VIEWED"] : o \in orders}
    /\ UNCHANGED <<wallets, products, order_items, ledger, writer, pc, call,
                   uuid, loc, pend, first, agent_vars>>

\* A read accessor called by p returns (or raises) r, or fails on the
\* storage; finally: conn.close().
Read(p, r) ==
    /\ pc[p] = "idle"
    /\ ncalls < MaxCalls
    /\ ncalls' = ncalls + 1
    /\ resp' = [resp EXCEPT ![p] = r]
       \/ resp' = [resp EXCEPT ![p] = ReadError(r.op, "StorageFailure")]
    /\ UNCHANGED <<store_vars, writer, pc, call, uuid, loc, pend, first,
                   agent_vars>>

GetBalance(p, user_id) == Read(p, GetBalanceResult(Store, user_id))

GetProduct(p, product_id) == Read(p, GetProductResult(Store, product_id))

SearchProducts(p, query) == Read(p, SearchProductsResult(Store, query))

GetOrders(p, user_id, limit) == Read(p, GetOrdersResult(Store, user_id, limit))

\* UPDATE products SET price_cents = ? WHERE product_id = ?, issued out of
\* band: a write, so it waits for the write lock like any other.
ChangePrice(product_id, price_cents) ==
    /\ LockFree
    /\ products[product_id].price_cents # price_cents
    /\ products' = [products EXCEPT ![product_id].price_cents = price_cents]
    /\ UNCHANGED <<wallets, orders, order_items, ledger, writer, pc, call,
                   uuid, loc, pend, resp, ncalls, first, agent_vars>>

ToolNext ==
    \/ \E p \in Procs :
          \/ \E c \in ToolCalls : Call(p, c)
          \/ ReplayAddFunds(p)
          \/ ReplayPurchase(p)
          \/ Begin(p)
          \/ Busy(p)
          \/ StorageFailure(p)
          \/ AddFundsReadBalance(p)
          \/ AddFundsUpdateWallet(p)
          \/ AddFundsInsertLedger(p)
          \/ PurchaseReadProduct(p)
          \/ PurchaseReadBalance(p)
          \/ PurchaseUpdateWallet(p)
          \/ PurchaseUpdateInventory(p)
          \/ PurchaseInsertOrder(p)
          \/ PurchaseInsertItem(p)
          \/ PurchaseInsertLedger(p)
          \/ Commit(p)
          \/ \E user_id \in BalanceUsers : GetBalance(p, user_id)
          \/ \E product_id \in ProductArgs : GetProduct(p, product_id)
          \/ \E query \in Queries : SearchProducts(p, query)
          \/ \E a \in OrdersArgs : GetOrders(p, a[1], a[2])
    \/ \E product_id \in Repriced, price_cents \in NewPrices :
          ChangePrice(product_id, price_cents)

ToolSpec == Init /\ [][ToolNext]_vars

(***************************************************************************)
(* A top-up and a purchase of a product that may be given away: its        *)
(* price_cents, non-negative, is set to 0 out of band.                     *)
(***************************************************************************)
\* The price of a product given away.
Giveaway == {0}

PriceNext ==
    \/ \E p \in Procs :
          \/ \E c \in LockCalls : Call(p, c)
          \/ ReplayAddFunds(p)
          \/ ReplayPurchase(p)
          \/ Begin(p)
          \/ Busy(p)
          \/ StorageFailure(p)
          \/ AddFundsReadBalance(p)
          \/ AddFundsUpdateWallet(p)
          \/ AddFundsInsertLedger(p)
          \/ PurchaseReadProduct(p)
          \/ PurchaseReadBalance(p)
          \/ PurchaseUpdateWallet(p)
          \/ PurchaseUpdateInventory(p)
          \/ PurchaseInsertOrder(p)
          \/ PurchaseInsertItem(p)
          \/ PurchaseInsertLedger(p)
          \/ Commit(p)
    \/ \E product_id \in Repriced, price_cents \in Giveaway :
          ChangePrice(product_id, price_cents)

PriceSpec == Init /\ [][PriceNext]_vars

(***************************************************************************)
(* add_funds and purchase as one uninterrupted call, as a chat front end   *)
(* makes them: each is the composition of the statements above on store s, *)
(* with uuid4() values built from n.                                       *)
(***************************************************************************)
AddFundsRun(s, c, n) ==
    LET found == GetLedgerByClientRequest(s, c.client_request_id)
        bal_before == GetWalletBalance(s, c.user_id)
        bal_after == AddFundsBalAfter(bal_before, c.amount_cents)
        l == [NoLocals EXCEPT !.bal_before = bal_before,
                              !.bal_after = bal_after]
        w == [UpdateWallet(NoWrites, c.user_id, bal_after) EXCEPT
                 !.ledger = {TopupEntry(TxId(n), c)}]
    IN  IF c.amount_cents <= 0
          THEN [store |-> s, resp |-> Error(c, NoLocals, "InvalidAmount")]
        ELSE IF ~EnsureUserExists(c.user_id)
          THEN [store |-> s, resp |-> Error(c, NoLocals, "UnknownUser")]
        ELSE IF found # {}
          THEN [store |-> s,
                resp |-> AddFundsReplayResponse(
                             c, NoLocals, CHOOSE e \in found : TRUE,
                             bal_before)]
        ELSE [store |-> Committed(s, w),
              resp |-> AddFundsResponse(c, l, TxId(n))]

PurchaseRun(s, c, n) ==
    LET found == GetLedgerByClientRequest(s, c.client_request_id)
        existing == CHOOSE e \in found : TRUE
        failed(e) == [store |-> s, resp |-> Error(c, NoLocals, e)]
    IN  IF c.quantity <= 0 THEN failed("InvalidQuantity")
        ELSE IF ~EnsureUserExists(c.user_id) THEN failed("UnknownUser")
        ELSE IF found # {}
          THEN IF existing.order_id = NoId THEN failed("MissingOrderId")
               ELSE IF ~\E i \in s.order_items : i.order_id = existing.order_id
                 THEN failed("OrderMissingItems")
               ELSE [store |-> s,
                     resp |-> PurchaseReplayResponse(
                                  c, NoLocals, s, existing.order_id,
                                  GetWalletBalance(s, c.user_id))]
        ELSE IF c.product_id \notin DOMAIN s.products
          THEN failed("UnknownProduct")
        ELSE LET price_cents == s.products[c.product_id].price_cents
                 inventory == s.products[c.product_id].inventory
                 total_cents == TotalCents(price_cents, c.quantity)
                 bal_before == GetWalletBalance(s, c.user_id)
                 l == [NoLocals EXCEPT !.price_cents = price_cents,
                                       !.inventory = inventory,
                                       !.total_cents = total_cents,
                                       !.bal_before = bal_before,
                                       !.bal_after = bal_before - total_cents]
                 w == [UpdateInventory(
                           UpdateWallet(NoWrites, c.user_id, l.bal_after),
                           c.product_id, inventory, c.quantity)
                         EXCEPT
                           !.orders = {OrderRow(OrderId(n), c, UtcNow(s),
                                                total_cents)},
                           !.order_items = {OrderItemRow(OrderId(n), c,
                                                         price_cents)},
                           !.ledger = {PurchaseEntry(TxId(n), OrderId(n), c,
                                                     total_cents)}]
             IN  IF InsufficientInventory(inventory, c.quantity)
                   THEN failed("InsufficientInventory")
                 ELSE IF InsufficientFunds(bal_before, total_cents)
                   THEN failed("InsufficientFunds")
                 ELSE [store |-> Committed(s, w),
                       resp |-> PurchaseResponse(c, l, OrderId(n))]

\* What a call of a mutator can come to: its run, or a failure of the
\* storage (database locked, I/O error) that leaves the store as it was.
MutatorOutcomes(s, run, c) ==
    {run, [store |-> s, resp |-> Error(c, NoLocals, "StorageFailure")]}

(***************************************************************************)
(* RuleAgent                                                               *)
(***************************************************************************)
\* Turns of one RuleAgent session.
MaxTurns == 4

\* The user of the session.
SessionUser == "u_1002"

YES ==
    {<<"y", "e", "s">>,
     <<"y">>,
     <<"y", "e", "a", "h">>,
     <<"y", "e", "p">>,
     <<"s", "u", "r", "e">>,
     <<"o", "k">>,
     <<"o", "k", "a", "y">>,
     <<"c", "o", "n", "f", "i", "r", "m">>}

NO ==
    {<<"n", "o">>,
     <<"n">>,
     <<"n", "o", "p", "e">>,
     <<"c", "a", "n", "c", "e", "l">>,
     <<"s", "t", "o", "p">>}

IsDigit(ch) == IndexOf(Digits, ch) > 0

DigitValue(ch) == IndexOf(Digits, ch) - 1

\* int() of a string of digits.
RECURSIVE ParseInt(_)
ParseInt(d) ==
    IF d = <<>> THEN 0
    ELSE ParseInt(SubSeq(d, 1, Len(d) - 1)) * 10 + DigitValue(d[Len(d)])

\* \d, \s and \w
DigitChars == {Digits[i] : i \in 1..Len(Digits)}

SpaceChars == {" "}

WordChars ==
    DigitChars \cup {"_"} \cup {UpperCase[i] : i \in 1..Len(UpperCase)}
    \cup {LowerCase[i] : i \in 1..Len(LowerCase)}

\* The end of the longest run of characters of S that starts at t[i]
\* (i - 1 when t[i] is not in S): what a greedy \d+ or \s+ consumes.
RunEnd(t, i, S) ==
    CHOOSE j \in (i - 1)..Len(t) :
        /\ \A k \in i..j : t[k] \in S
        /\ j = Len(t) \/ t[j + 1] \notin S

\* _money_to_cents: the first number of the text, with at most two
\* decimals, in cents; {} for None.
MoneyToCents(text) ==
    IF ~\E i \in 1..Len(text) : IsDigit(text[i]) THEN {}
    ELSE LET i == CHOOSE x \in 1..Len(text) :
                      IsDigit(text[x]) /\ \A y \in 1..(x - 1) : ~IsDigit(text[y])
             j == RunEnd(text, i, DigitChars)
             one == j + 2 <= Len(text) /\ text[j + 1] = "."
                    /\ IsDigit(text[j + 2])
             two == one /\ j + 3 <= Len(text) /\ IsDigit(text[j + 3])
         IN  {ParseInt(SubSeq(text, i, j)) * 100
              + (IF two THEN ParseInt(SubSeq(text, j + 2, j + 3))
                 ELSE IF one THEN DigitValue(text[j + 2]) * 10
                 ELSE 0)}

\* \bbuy\s at position i, case ignored.
BuyAt(text, i) ==
    /\ i + 3 <= Len(text)
    /\ Lower(SubSeq(text, i, i + 2)) = <<"b", "u", "y">>
    /\ i = 1 \/ text[i - 1] \notin WordChars
    /\ IsSpace(text[i + 3])

\* (.+) after a greedy \s+ that ended at position e and began at position
\* b: the rest of the text, or one of the spaces when nothing follows them.
RestMatches(text, b, e) == e < Len(text) \/ e > b

\* _extract_quantity_and_query
ExtractQuantityAndQuery(text) ==
    LET digits(i) == RunEnd(text, i + 3, SpaceChars) + 1
        after(i) == RunEnd(text, digits(i), DigitChars) + 1
        counted(i) ==
            /\ BuyAt(text, i)
            /\ digits(i) <= Len(text)
            /\ IsDigit(text[digits(i)])
            /\ after(i) <= Len(text)
            /\ IsSpace(text[after(i)])
            /\ RestMatches(text, after(i), RunEnd(text, after(i), SpaceChars))
        plain(i) ==
            /\ BuyAt(text, i)
            /\ RestMatches(text, i + 3, RunEnd(text, i + 3, SpaceChars))
        leftmost(P(_)) ==
            CHOOSE i \in 1..Len(text) : P(i) /\ \A j \in 1..(i - 1) : ~P(j)
    IN  IF \E i \in 1..Len(text) : counted(i)
          THEN LET i == leftmost(counted)
               IN  <<ParseInt(SubSeq(text, digits(i), after(i) - 1)),
                     Strip(SubSeq(text, after(i), Len(text)))>>
        ELSE IF \E i \in 1..Len(text) : plain(i)
          THEN <<1, Strip(SubSeq(text, leftmost(plain) + 3, Len(text)))>>
        ELSE <<1, Strip(text)>>

\* re.sub(r"^(show|list)\s+(me\s+)?", "", t, flags=re.IGNORECASE).strip()
ShowQuery(t) ==
    LET verb == /\ StartsWith(Lower(t), <<"s", "h", "o", "w">>) \/ StartsWith(Lower(t), <<"l", "i", "s", "t">>)
                /\ Len(t) >= 5
                /\ IsSpace(t[5])
        rest == SubSeq(t, RunEnd(t, 5, SpaceChars) + 1, Len(t))
        me == /\ StartsWith(Lower(rest), <<"m", "e">>)
              /\ Len(rest) >= 3
              /\ IsSpace(rest[3])
    IN  IF ~verb THEN Strip(t)
        ELSE IF ~me THEN Strip(rest)
        ELSE Strip(SubSeq(rest, RunEnd(rest, 3, SpaceChars) + 1, Len(rest)))

\* The queries that list the whole catalog.
WholeCatalog ==
    {<<>>,
     <<"p", "r", "o", "d", "u", "c", "t", "s">>,
     <<"p", "r", "o", "d", "u", "c", "t">>,
     <<"c", "a", "t", "a", "l", "o", "g">>,
     <<"a", "l", "l">>,
     <<"e", "v", "e", "r", "y", "t", "h", "i", "n", "g">>,
     <<"i", "n", "v", "e", "n", "t", "o", "r", "y">>,
     <<"s", "t", "o", "c", "k">>}

PendingPurchase(prod, qty, total, purchase_request_id) ==
    [product_id |-> prod.product_id, quantity |-> qty, total_cents |-> total,
     unit_price_cents |-> prod.price_cents, product_name |-> prod.name,
     purchase_request_id |-> purchase_request_id]

PendingTopup(amount_cents, topup_request_id) ==
    [amount_cents |-> amount_cents, topup_request_id |-> topup_request_id,
     source |-> "external"]

\* f"topup_{uuid4().hex}" and f"purchase_{uuid4().hex}"
TopupRequestId(n) == "topup_" \o ToString(n)

PurchaseRequestId(n) == "purchase_" \o ToString(n)

\* A read accessor returns (or raises) r, or fails on the storage.
ReadOutcomes(r) == {r, ReadError(r.op, "StorageFailure")}

\* The entry of a read accessor in the calls of a turn.
ReadCall(op, user_id) == Call_(op, user_id, 0, "", 0, "")

\* handle returned: the agent's fields, the store, the tools called and
\* the reply.
Returned(r, s, calls, kind) ==
    [rule |-> r, store |-> s, calls |-> calls,
     reply |-> [kind |-> kind, err |-> ""]]

\* handle raised the exception of the tool it called last.
Raised(r, s, calls, e) ==
    [rule |-> r, store |-> s, calls |-> calls,
     reply |-> [kind |-> "raised", err |-> e]]

\* Mutant: a message that contains a YES word confirms.
Confirms_Substring(tl) == \E y \in YES : Contains(tl, y)

\* tl in YES
Confirms(tl) == tl \in YES

\* tl in NO
\* Mutant: no word cancels.
Cancels_Never(tl) == FALSE

\* tl in NO
Cancels(tl) == tl \in NO

\* handle, a top-up is pending.
HandlePendingTopup(r, s, tl, user_id, n) ==
    LET top == CHOOSE x \in r.pending_topup : TRUE
        c == AddFunds(user_id, top.amount_cents, top.topup_request_id)
        cleared == [r EXCEPT !.pending_topup = {}]
    IN  IF Confirms(tl)
          THEN {IF o.resp.status = "ok"
                  THEN Returned(cleared, o.store, <<c>>, "added")
                  ELSE Raised(cleared, o.store, <<c>>, o.resp.err) :
                o \in MutatorOutcomes(s, AddFundsRun(s, c, n), c)}
        ELSE IF Cancels(tl)
          THEN {Returned(cleared, s, <<>>, "topup_cancelled")}
        ELSE {Returned(r, s, <<>>, "confirm_topup_or_cancel")}

\* Mutant: the pending purchase is cleared only once purchase has returned.
HandlePendingPurchase_ClearsAfter(r, s, tl, user_id, n) ==
    LET pp == CHOOSE x \in r.pending_purchase : TRUE
        c == Purchase(user_id, pp.product_id, pp.quantity,
                      pp.purchase_request_id)
        cleared == [r EXCEPT !.pending_purchase = {}]
    IN  IF Confirms(tl)
          THEN {IF o.resp.status = "ok"
                  THEN Returned(cleared, o.store, <<c>>, "order_placed")
                  ELSE Raised(r, o.store, <<c>>, o.resp.err) :
                o \in MutatorOutcomes(s, PurchaseRun(s, c, n), c)}
        ELSE IF Cancels(tl)
          THEN {Returned(cleared, s, <<>>, "purchase_cancelled")}
        ELSE {Returned(r, s, <<>>, "confirm_purchase_or_cancel")}

\* handle, a purchase is pending.
HandlePendingPurchase(r, s, tl, user_id, n) ==
    LET pp == CHOOSE x \in r.pending_purchase : TRUE
        c == Purchase(user_id, pp.product_id, pp.quantity,
                      pp.purchase_request_id)
        cleared == [r EXCEPT !.pending_purchase = {}]
    IN  IF Confirms(tl)
          THEN {IF o.resp.status = "ok"
                  THEN Returned(cleared, o.store, <<c>>, "order_placed")
                  ELSE Raised(cleared, o.store, <<c>>, o.resp.err) :
                o \in MutatorOutcomes(s, PurchaseRun(s, c, n), c)}
        ELSE IF Cancels(tl)
          THEN {Returned(cleared, s, <<>>, "purchase_cancelled")}
        ELSE {Returned(r, s, <<>>, "confirm_purchase_or_cancel")}

\* handle, "balance" in tl
HandleBalance(r, s, user_id) ==
    {IF b.status = "ok"
       THEN Returned(r, s, <<ReadCall("get_balance", user_id)>>, "balance")
       ELSE Raised(r, s, <<ReadCall("get_balance", user_id)>>, b.err) :
     b \in ReadOutcomes(GetBalanceResult(s, user_id))}

\* handle, show / list / catalog / products
HandleShow(r, s, t) ==
    LET query == ShowQuery(t)
        calls == <<ReadCall("search_products", "")>>
    IN  {IF res.status # "ok" THEN Raised(r, s, calls, res.err)
         ELSE IF res.products = <<>> THEN Returned(r, s, calls, "no_products")
         ELSE Returned(r, s, calls, "products") :
         res \in ReadOutcomes(
                    SearchProductsResult(
                        s, IF Lower(query) \in WholeCatalog
                             THEN None ELSE query))}

\* handle, add / top up / load
HandleAdd(r, s, t, n) ==
    LET cents == MoneyToCents(t)
    IN  IF cents = {} \/ \E x \in cents : x <= 0
          THEN {Returned(r, s, <<>>, "how_much")}
          ELSE {Returned([r EXCEPT !.pending_topup =
                            {PendingTopup(x, TopupRequestId(n))}],
                         s, <<>>, "confirm_topup") : x \in cents}

\* Mutant: with the top-up offer the purchase is kept pending as well.
Propose_KeepsPurchase(r, s, calls, prod, qty, bal, n) ==
    LET total == prod.price_cents * qty
    IN  IF prod.inventory < qty
          THEN Returned(r, s, SubSeq(calls, 1, 2), "out_of_stock")
        ELSE IF bal.status # "ok" THEN Raised(r, s, calls, bal.err)
        ELSE Returned([r EXCEPT
                         !.pending_topup =
                            IF bal.balance_cents < total
                              THEN {PendingTopup(total - bal.balance_cents,
                                                 TopupRequestId(n))}
                              ELSE {},
                         !.pending_purchase =
                            {PendingPurchase(prod, qty, total,
                                             PurchaseRequestId(n))}],
                      s, calls,
                      IF bal.balance_cents < total THEN "offer_topup"
                                                   ELSE "confirm_purchase")

\* handle, buy: the proposal once the product and the balance are read.
Propose(r, s, calls, prod, qty, bal, n) ==
    LET total == prod.price_cents * qty
    IN  IF prod.inventory < qty
          THEN Returned(r, s, SubSeq(calls, 1, 2), "out_of_stock")
        ELSE IF bal.status # "ok" THEN Raised(r, s, calls, bal.err)
        ELSE IF bal.balance_cents < total
          THEN Returned([r EXCEPT !.pending_topup =
                           {PendingTopup(total - bal.balance_cents,
                                         TopupRequestId(n))}],
                        s, calls, "offer_topup")
        ELSE Returned([r EXCEPT !.pending_purchase =
                         {PendingPurchase(prod, qty, total,
                                          PurchaseRequestId(n))}],
                      s, calls, "confirm_purchase")

\* handle, buy
HandleBuy(r, s, t, user_id, n) ==
    LET qty == ExtractQuantityAndQuery(t)[1]
        query == ExtractQuantityAndQuery(t)[2]
        calls == <<ReadCall("search_products", ""),
                   ReadCall("get_product", ""),
                   ReadCall("get_balance", user_id)>>
    IN  UNION {
          IF res.status # "ok" THEN {Raised(r, s, SubSeq(calls, 1, 1), res.err)}
          ELSE IF res.products = <<>>
            THEN {Returned(r, s, SubSeq(calls, 1, 1), "not_found")}
          ELSE UNION {
                 IF got.status # "ok"
                   THEN {Raised(r, s, SubSeq(calls, 1, 2), got.err)}
                   ELSE {Propose(r, s, calls, got.product, qty, bal, n) :
                         bal \in ReadOutcomes(GetBalanceResult(s, user_id))} :
                 got \in ReadOutcomes(
                            GetProductResult(s, res.products[1].product_id))} :
          res \in ReadOutcomes(SearchProductsResult(s, query))}

\* handle, orders / history
HandleOrders(r, s, user_id) ==
    LET calls == <<ReadCall("get_orders", user_id)>>
    IN  {IF o.status # "ok" THEN Raised(r, s, calls, o.err)
         ELSE IF o.orders = <<>> THEN Returned(r, s, calls, "no_orders")
         ELSE Returned(r, s, calls, "orders") :
         o \in ReadOutcomes(GetOrdersResult(s, user_id, 5))}

\* RuleAgent.handle with fields r on store s, its n-th turn: the outcomes
\* the turn can have.
HandleOutcomes(r, s, user_text, user_id, n) ==
    LET t == Strip(user_text)
        tl == Lower(t)
    IN  IF r.pending_topup # {} THEN HandlePendingTopup(r, s, tl, user_id, n)
        ELSE IF r.pending_purchase # {}
          THEN HandlePendingPurchase(r, s, tl, user_id, n)
        ELSE IF Contains(tl, <<"b", "a", "l", "a", "n", "c", "e">>) THEN HandleBalance(r, s, user_id)
        ELSE IF \/ StartsWith(tl, <<"s", "h", "o", "w">>)
                \/ StartsWith(tl, <<"l", "i", "s", "t">>)
                \/ Contains(tl, <<"c", "a", "t", "a", "l", "o", "g">>)
                \/ tl = <<"p", "r", "o", "d", "u", "c", "t", "s">>
                \/ tl = <<"p", "r", "o", "d", "u", "c", "t">>
          THEN HandleShow(r, s, t)
        ELSE IF \/ StartsWith(tl, <<"a", "d", "d">>)
                \/ Contains(tl, <<"t", "o", "p", " ", "u", "p">>)
                \/ Contains(tl, <<"l", "o", "a", "d">>)
          THEN HandleAdd(r, s, t, n)
        ELSE IF StartsWith(tl, <<"b", "u", "y">>) THEN HandleBuy(r, s, t, user_id, n)
        ELSE IF Contains(tl, <<"o", "r", "d", "e", "r", "s">>) \/ Contains(tl, <<"h", "i", "s", "t", "o", "r", "y">>)
          THEN HandleOrders(r, s, user_id)
        ELSE {Returned(r, s, <<>>, "help")}

\* What the user types.
Messages ==
    {<<"y", "e", "s">>,
     <<"O", "K", " ">>,
     <<"n", "o">>,
     <<"y", "e", "s", " ", "p", "l", "e", "a", "s", "e">>,
     <<"b", "u", "y", " ", "m", "o", "u", "s", "e">>,
     <<"b", "u", "y", " ", "c", "a", "b", "l", "e">>,
     <<"b", "u", "y", " ", "3", " ", "c", "a", "b", "l", "e", "s">>,
     <<"a", "d", "d", " ", "$", "5">>,
     <<"b", "a", "l", "a", "n", "c", "e">>,
     <<"s", "h", "o", "w", " ", "m", "e", " ", "c", "a", "b", "l", "e", "s">>,
     <<"o", "r", "d", "e", "r", "s">>,
     <<"h", "e", "l", "l", "o">>}

\* One turn: the user sends user_text and handle runs to its end.
HandleTurn(user_text, user_id) ==
    /\ turn.n < MaxTurns
    /\ \E o \in HandleOutcomes(rule, Store, user_text, user_id, turn.n + 1) :
          /\ rule' = o.rule
          /\ SetStore(o.store)
          /\ turn' = [n |-> turn.n + 1, text |-> user_text,
                      user_id |-> user_id, calls |-> o.calls,
                      reply |-> o.reply,
                      before |-> IF turn.n = 0 THEN <<>>
                                 ELSE Append(turn.before, turn.reply.kind)]
    /\ UNCHANGED <<caller_vars, ncalls>>

\* A turn of a RuleAgent used on its own.
Handle(user_text, user_id) ==
    HandleTurn(user_text, user_id) /\ UNCHANGED <<llm, router>>

RuleNext == \E user_text \in Messages : Handle(user_text, SessionUser)

RuleSpec == Init /\ [][RuleNext]_vars

(***************************************************************************)
(* StoreAgent                                                              *)
(***************************************************************************)
\* for _ in range(10)
StepLimit == 10

\* Chat turns of one StoreAgent session.
MaxChats == 2

\* What the user types.
ChatMessages == {<<"b", "u", "y", " ", "c", "a", "b", "l", "e">>, <<"y", "e", "s">>}

\* A function_call part of a model response.
FunctionCall(name, args) == [name |-> name, args |-> args]

\* _dispatch_tool: the names it maps.
Tools ==
    {"get_balance", "add_funds", "search_products", "get_product",
     "purchase", "get_orders"}

\* result = fn(**tool_args) on store s: the store after the call and what
\* the tool returned or raised.
Dispatch(s, fc, n) ==
    IF fc.name = "add_funds"
      THEN AddFundsRun(s, AddFunds(fc.args.user_id, fc.args.amount_cents,
                                   fc.args.client_request_id), n)
    ELSE IF fc.name = "purchase"
      THEN PurchaseRun(s, Purchase(fc.args.user_id, fc.args.product_id,
                                   fc.args.quantity,
                                   fc.args.client_request_id), n)
    ELSE IF fc.name = "get_balance"
      THEN [store |-> s, resp |-> GetBalanceResult(s, fc.args.user_id)]
    ELSE IF fc.name = "search_products"
      THEN [store |-> s, resp |-> SearchProductsResult(s, fc.args.query)]
    ELSE IF fc.name = "get_product"
      THEN [store |-> s, resp |-> GetProductResult(s, fc.args.product_id)]
    ELSE [store |-> s,
          resp |-> GetOrdersResult(s, fc.args.user_id, fc.args.limit)]

\* The uuid4() of a call on store s: a value no row of s carries yet (each
\* call that commits adds one ledger row, the seeded row carries 0).
FreshUuid(s) == Cardinality(s.ledger)

\* for fc in function_calls: the calls are executed in order; an exception
\* of a tool becomes the payload {"error": ...}, a name _dispatch_tool does
\* not map raises out of the loop.
RECURSIVE DispatchAll(_, _)
DispatchAll(s, function_calls) ==
    IF function_calls = <<>>
      THEN [store |-> s, dispatched |-> <<>>, raised |-> FALSE]
    ELSE IF Head(function_calls).name \notin Tools
      THEN [store |-> s, dispatched |-> <<>>, raised |-> TRUE]
    ELSE LET fc == Head(function_calls)
             o == Dispatch(s, fc, FreshUuid(s))
             rest == DispatchAll(o.store, Tail(function_calls))
         IN  [store |-> rest.store,
              dispatched |->
                 <<[name |-> fc.name, args |-> fc.args,
                    payload |-> IF o.resp.status = "ok"
                                  THEN "result" ELSE "error"]>>
                 \o rest.dispatched,
              raised |-> rest.raised]

\* A response of the model: generate raised, or returned no candidate, or
\* returned parts with text and function calls.  raises is the message of
\* the exception, <<>> when generate returned.
ModelResponse(raises, candidate, text, function_calls) ==
    [raises |-> raises, candidate |-> candidate, text |-> text,
     function_calls |-> function_calls]

\* What the model may answer in turn n of user_id: the model is free, the
\* request ids are those of the turn's USER_CONTEXT.
ModelResponses(user_id, n) ==
    LET buy == FunctionCall("purchase",
                   [user_id |-> user_id, product_id |-> "p_2001",
                    quantity |-> 1,
                    client_request_id |-> PurchaseRequestId(n)])
        topup == FunctionCall("add_funds",
                     [user_id |-> user_id, amount_cents |-> 500,
                      client_request_id |-> TopupRequestId(n)])
        balance == FunctionCall("get_balance", [user_id |-> user_id])
        product == FunctionCall("get_product", [product_id |-> "p_2001"])
        search == FunctionCall("search_products", [query |-> <<"c", "a", "b", "l", "e">>])
        history == FunctionCall("get_orders", [user_id |-> user_id, limit |-> 0])
        refund == FunctionCall("refund", [user_id |-> user_id])
    IN  {ModelResponse(<<"4", "2", "9", " ", "R", "E", "S", "O", "U", "R", "C", "E", "_", "E", "X", "H", "A", "U", "S", "T", "E", "D">>, FALSE, <<>>, <<>>),
         ModelResponse(<<"R", "a", "t", "e", " ", "l", "i", "m", "i", "t", " ", "e", "x", "c", "e", "e", "d", "e", "d">>, FALSE, <<>>, <<>>),
         ModelResponse(<<"5", "0", "3", " ", "u", "n", "a", "v", "a", "i", "l", "a", "b", "l", "e">>, FALSE, <<>>, <<>>),
         ModelResponse(<<>>, FALSE, <<>>, <<>>),
         ModelResponse(<<>>, TRUE, <<>>, <<>>),
         ModelResponse(<<>>, TRUE, <<" ">>, <<>>),
         ModelResponse(<<>>, TRUE, <<"o", "k">>, <<>>),
         ModelResponse(<<>>, TRUE, <<"o", "k">>, <<search, product, balance>>),
         ModelResponse(<<>>, TRUE, <<>>, <<history>>),
         ModelResponse(<<>>, TRUE, <<>>, <<buy>>),
         ModelResponse(<<>>, TRUE, <<>>, <<topup, buy>>),
         ModelResponse(<<>>, TRUE, <<>>, <<topup, refund>>)}

\* chat: except Exception as e -- the errors it answers with the quota
\* message instead of raising them.
ChatQuotaError(e) ==
    LET s == Lower(e)
    IN  \/ Contains(s, <<"4", "2", "9">>)
        \/ Contains(s, <<"r", "e", "s", "o", "u", "r", "c", "e", "_", "e", "x", "h", "a", "u", "s", "t", "e", "d">>)
        \/ Contains(s, <<"q", "u", "o", "t", "a">>)

\* StoreAgent.chat up to the first call of the model.  confirmed: this
\* message or an earlier one of the session is a YES word.
ChatStart(user_message, user_id) ==
    /\ llm.step = 0
    /\ llm.turns < MaxChats
    /\ llm' = [turns |-> llm.turns + 1, step |-> 1, text |-> user_message,
               confirmed |-> llm.confirmed
                             \/ Confirms(Lower(Strip(user_message))),
               dispatched |-> <<>>, reply |-> "", err |-> <<>>]
    /\ UNCHANGED <<store_vars, caller_vars, ncalls>>

\* The first step of a turn of a StoreAgent used on its own.
Chat(user_message, user_id) ==
    ChatStart(user_message, user_id) /\ UNCHANGED <<rule, turn, router>>

\* The turn ends with reply, after the model raised err (<<>>: it did not).
ChatReturns(reply, dispatched, err) ==
    llm' = [llm EXCEPT !.step = 0, !.dispatched = dispatched,
                       !.reply = reply, !.err = err]

\* One pass of the loop of _chat_gemini: the model answers r.
GenerateStep(r) ==
    /\ llm.step \in 1..StepLimit
    /\ UNCHANGED <<caller_vars, ncalls>>
    /\ IF r.function_calls # <<>> /\ r.raises = <<>> /\ r.candidate
         THEN LET d == DispatchAll(Store, r.function_calls)
              IN  /\ SetStore(d.store)
                  /\ IF d.raised
                       THEN ChatReturns("raised", d.dispatched, <<>>)
                     ELSE IF llm.step = StepLimit
                       THEN ChatReturns("step_limit_reached", d.dispatched,
                                        <<>>)
                     ELSE llm' = [llm EXCEPT !.step = @ + 1,
                                             !.dispatched = d.dispatched,
                                             !.err = <<>>]
         ELSE /\ UNCHANGED store_vars
              /\ ChatReturns(IF r.raises # <<>> /\ ChatQuotaError(r.raises)
                               THEN "quota"
                             ELSE IF r.raises # <<>> THEN "raised"
                             ELSE IF ~r.candidate THEN "no_valid_response"
                             ELSE IF Strip(r.text) # <<>> THEN "text"
                             ELSE "empty_response",
                             <<>>, r.raises)

\* A pass of the loop in a turn of a StoreAgent used on its own.
Generate(r) == GenerateStep(r) /\ UNCHANGED <<rule, turn, router>>

LlmNext ==
    \/ \E user_message \in ChatMessages : Chat(user_message, SessionUser)
    \/ \E r \in ModelResponses(SessionUser, llm.turns) : Generate(r)

LlmSpec == Init /\ [][LlmNext]_vars

(***************************************************************************)
(* ChatRouter                                                              *)
(***************************************************************************)
Modes == {"llm", "rule", "auto"}

\* What the user types to the router.
RouterMessages == {<<"y", "e", "s">>, <<"b", "u", "y", " ", "c", "a", "b", "l", "e">>, <<"h", "e", "l", "l", "o">>}

\* is_quota_error
IsQuotaError(e) ==
    LET s == Lower(e)
    IN  \/ Contains(s, <<"4", "2", "9">>)
        \/ Contains(s, <<"r", "e", "s", "o", "u", "r", "c", "e", "_", "e", "x", "h", "a", "u", "s", "t", "e", "d">>)
        \/ Contains(s, <<"q", "u", "o", "t", "a">>)
        \/ Contains(s, <<"r", "a", "t", "e", " ", "l", "i", "m", "i", "t">>)
        \/ Contains(s, <<"t", "o", "o", " ", "m", "a", "n", "y", " ", "r", "e", "q", "u", "e", "s", "t", "s">>)

\* looks_like_simple_command: keywords
Keywords ==
    {<<"b", "a", "l", "a", "n", "c", "e">>,
     <<"o", "r", "d", "e", "r", "s">>,
     <<"h", "i", "s", "t", "o", "r", "y">>,
     <<"s", "h", "o", "w">>,
     <<"l", "i", "s", "t">>,
     <<"c", "a", "t", "a", "l", "o", "g">>,
     <<"p", "r", "o", "d", "u", "c", "t", "s">>,
     <<"b", "u", "y">>,
     <<"a", "d", "d">>,
     <<"t", "o", "p", " ", "u", "p">>,
     <<"l", "o", "a", "d">>}

\* looks_like_simple_command
LooksLikeSimpleCommand(text) ==
    LET t == Lower(Strip(text))
    IN  \E k \in Keywords : Contains(t, k)

\* respond routes the message to the RuleAgent, whose handle runs to its
\* end: mode rule, or auto when locked to rule or on a simple command.
RespondRule(user_text, user_id) ==
    /\ llm.step = 0
    /\ router.turns < MaxChats
    /\ \/ router.mode = "rule"
       \/ /\ router.mode = "auto"
          /\ router.auto_locked_to_rule \/ LooksLikeSimpleCommand(user_text)
    /\ HandleTurn(user_text, user_id)
    /\ router' = [router EXCEPT !.turns = @ + 1, !.answered = "rule"]
    /\ UNCHANGED llm

\* respond routes the message to the StoreAgent: mode llm, or auto otherwise.
RespondLlm(user_text, user_id) ==
    /\ router.turns < MaxChats
    /\ \/ router.mode = "llm"
       \/ /\ router.mode = "auto"
          /\ ~router.auto_locked_to_rule
          /\ ~LooksLikeSimpleCommand(user_text)
    /\ ChatStart(user_text, user_id)
    /\ router' = [router EXCEPT !.turns = @ + 1, !.answered = "llm"]
    /\ UNCHANGED <<rule, turn>>

\* The StoreAgent's turn goes on inside respond: the model answers r.  In
\* auto mode a quota error that chat raises locks the session to the
\* RuleAgent, which then handles the message of the turn.
RespondGenerate(r, user_id) ==
    IF /\ router.mode = "auto"
       /\ r.raises # <<>>
       /\ ~ChatQuotaError(r.raises)
       /\ IsQuotaError(r.raises)
      THEN /\ llm.step \in 1..StepLimit
           /\ ChatReturns("raised", <<>>, r.raises)
           /\ HandleTurn(llm.text, user_id)
           /\ router' = [router EXCEPT !.auto_locked_to_rule = TRUE,
                                       !.answered = "rule"]
      ELSE /\ GenerateStep(r)
           /\ UNCHANGED <<rule, turn, router>>

RouterInit == Seeded /\ \E mode \in Modes : router = Router(mode)

RouterNext ==
    \/ \E user_text \in RouterMessages : RespondRule(user_text, SessionUser)
    \/ \E user_text \in RouterMessages : RespondLlm(user_text, SessionUser)
    \/ \E r \in ModelResponses(SessionUser, llm.turns) :
          RespondGenerate(r, SessionUser)

RouterSpec == RouterInit /\ [][RouterNext]_vars

(***************************************************************************)
(* Properties                                                              *)
(***************************************************************************)
\* Caller p takes a step of its call.
Acts(p) == pc'[p] # pc[p] \/ resp'[p] # resp[p]

\* C1: a call that repeats, with the same client_request_id, user and
\* arguments, the one add_funds or purchase that committed under that id
\* before it started takes
\* the replay path, returns the first call's added_cents and tx_id (resp.
\* order_id and total_cents), and none of its steps changes wallets, products,
\* orders, order_items or ledger.
C1_RepeatedCallIsIdempotent ==
    [][\A p \in Procs :
         /\ (loc'[p].repeat /\ ~loc[p].repeat) =>
               (pc'[p] = "replay" /\ UNCHANGED store_vars)
         /\ (loc[p].repeat /\ Acts(p)) =>
               /\ UNCHANGED store_vars
               /\ pc'[p] = "idle"
               /\ resp'[p].status = "ok"
               /\ LET f == first[call[p].client_request_id].resp
                  IN  IF call[p].op = "add_funds"
                        THEN /\ resp'[p].added_cents = f.added_cents
                             /\ resp'[p].tx_id = f.tx_id
                        ELSE /\ resp'[p].order_id = f.order_id
                             /\ resp'[p].total_cents = f.total_cents]_vars

\* A repeated purchase has returned the first purchase's order.
C1_Witness ==
    \E p \in Procs :
        /\ resp[p].repeat
        /\ resp[p].op = "purchase"
        /\ resp[p].status = "ok"
        /\ resp[p].order_id # NoId

\* C2: a step changes a wallet or the ledger only when it is the commit of an
\* add_funds or purchase, and that commit appends exactly one ledger entry,
\* of the calling user, whose amount_cents is the change of that user's
\* balance_cents, and changes no other wallet.
C2_WalletChangesWithLedgerEntry ==
    [][(wallets' # wallets \/ ledger' # ledger) =>
          \E p \in Procs :
              /\ pc[p] = "commit"
              /\ pc'[p] = "idle"
              /\ resp'[p].status = "ok"
              /\ call[p].op \in {"add_funds", "purchase"}
              /\ \E e \in ledger' \ ledger :
                    /\ ledger' = ledger \cup {e}
                    /\ e.user_id = call[p].user_id
                    /\ e.amount_cents = wallets'[e.user_id] - wallets[e.user_id]
                    /\ \A u \in Users \ {e.user_id} : wallets'[u] = wallets[u]]_vars

\* A purchase has been committed: a debited wallet and its ledger entry.
C2_Witness ==
    \E e \in ledger \ SeedLedger :
        /\ e.kind = "PURCHASE"
        /\ wallets[e.user_id] < SeedWallets[e.user_id]

\* The units of product_id in the order item rows I.
UnitsSold(I, product_id) ==
    Sum({[k |-> i.order_id, n |-> i.quantity] :
            i \in {x \in I : x.product_id = product_id}})

\* C3: in every reachable committed state, starting from the seeded store,
\* each user's wallet balance equals the sum of amount_cents over that
\* user's ledger entries.
C3_BalanceEqualsLedgerSum ==
    \A u \in Users : wallets[u] = LedgerSum(ledger, u)

\* C4: in every reachable state, under every interleaving of add_funds and
\* purchase calls, every balance_cents and every inventory is >= 0, in the
\* committed store and in every write a transaction has issued.
C4_NonNegative ==
    /\ \A u \in Users : wallets[u] >= 0
    /\ \A i \in ProductIds : products[i].inventory >= 0
    /\ \A p \in Procs :
          /\ \A w \in pend[p].wallets : w[2] >= 0
          /\ \A w \in pend[p].inventory : w[2] >= 0

\* Two purchases competed for the stock of p_2001: it is sold out and one
\* caller was refused for insufficient inventory.
C4_Witness ==
    /\ products["p_2001"].inventory = 0
    /\ \E p \in Procs : resp[p].err = "InsufficientInventory"

\* C5: a purchase raises insufficient inventory only when the stock it read
\* is below the quantity, and insufficient funds only when the balance it
\* read is below price_cents * quantity; it has issued no write by then, and
\* no step of the call up to and including the failure changes wallets,
\* products, orders, order_items or ledger.
C5_FailedPurchaseChangesNothing ==
    [][\A p \in Procs :
         /\ (call[p].op = "purchase" /\ pc[p] \in {"begin", "p_prod", "p_bal"}
             /\ Acts(p)) => UNCHANGED store_vars
         /\ (Acts(p) /\ resp'[p].err = "InsufficientInventory") =>
               /\ pc[p] = "p_prod"
               /\ products[call[p].product_id].inventory < call[p].quantity
               /\ pend[p] = NoWrites
               /\ UNCHANGED store_vars
         /\ (Acts(p) /\ resp'[p].err = "InsufficientFunds") =>
               /\ pc[p] = "p_bal"
               /\ wallets[call[p].user_id] <
                     products[call[p].product_id].price_cents * call[p].quantity
               /\ pend[p] = NoWrites
               /\ UNCHANGED store_vars]_vars

\* One purchase was refused for insufficient funds, another for insufficient
\* inventory.
C5_Witness ==
    \E p, q \in Procs :
        /\ resp[p].err = "InsufficientFunds"
        /\ resp[q].err = "InsufficientInventory"

\* C6: no committed state holds a partial effect of a call.  Every PURCHASE
\* entry written by a call has its order (same user, total = -amount) and its
\* order item (same product and quantity); every order has an item and a
\* PURCHASE entry; every item has its order; each balance is the seeded
\* balance plus the amounts of the user's entries written since; each
\* inventory is the seeded stock minus the units of the items written since.
C6_NoPartialEffect ==
    /\ \A e \in ledger \ SeedLedger :
          e.kind = "PURCHASE" =>
             /\ \E o \in orders :
                   /\ o.order_id = e.order_id
                   /\ o.user_id = e.user_id
                   /\ o.total_cents = -e.amount_cents
             /\ \E i \in order_items :
                   /\ i.order_id = e.order_id
                   /\ i.product_id = e.product_id
                   /\ i.quantity = e.quantity
    /\ \A o \in orders :
          /\ \E i \in order_items : i.order_id = o.order_id
          /\ \E e \in ledger : e.kind = "PURCHASE" /\ e.order_id = o.order_id
    /\ \A i \in order_items : \E o \in orders : o.order_id = i.order_id
    /\ \A u \in Users :
          wallets[u] = SeedWallets[u] + LedgerSum(ledger \ SeedLedger, u)
    /\ \A i \in ProductIds :
          products[i].inventory =
             SeedProducts[i].inventory - UnitsSold(order_items \ SeedOrderItems, i)

\* A statement failed after the transaction had issued writes, and the
\* rollback discarded them.
C6_Witness ==
    \E p \in Procs : resp[p].err = "StorageFailure" /\ resp[p].discarded

\* What the call that committed under client_request_id r added to user u's
\* balance, and took from product i's stock.
BalanceEffect(r, u) ==
    IF first[r].commits = 0 \/ first[r].call.user_id # u THEN 0
    ELSE IF first[r].call.op = "add_funds" THEN first[r].call.amount_cents
    ELSE -first[r].resp.total_cents

StockEffect(r, i) ==
    IF first[r].commits = 0 \/ first[r].call.op # "purchase"
       \/ first[r].call.product_id # i
      THEN 0
      ELSE first[r].call.quantity

\* Balances and stock are the seeded ones changed by every committed call
\* exactly once.
EveryCommittedCallCounted ==
    /\ \A u \in Users :
          wallets[u] = SeedWallets[u]
             + Sum({[k |-> r, n |-> BalanceEffect(r, u)] : r \in RequestIds})
    /\ \A i \in ProductIds :
          products[i].inventory = SeedProducts[i].inventory
             - Sum({[k |-> r, n |-> StockEffect(r, i)] : r \in RequestIds})

\* C7: under every interleaving of add_funds and purchase calls, at most one
\* call is between BEGIN IMMEDIATE and the end of its transaction and, as
\* long as the committed calls carry distinct client_request_ids, each
\* balance is the initial balance plus the amounts of all committed calls on
\* that wallet and each inventory is the initial inventory minus the
\* quantities of all committed purchases of that product: no update is lost.
C7_NoLostUpdate ==
    /\ \A p, q \in Procs :
          (pc[p] \in InTransaction /\ pc[q] \in InTransaction) => p = q
    /\ (\A r \in RequestIds : first[r].commits <= 1) => EveryCommittedCallCounted

\* A call holds the write lock, about to commit, while a call with another
\* client_request_id on the same wallet has passed its lookup and waits at
\* BEGIN IMMEDIATE.
C7_Witness ==
    \E p, q \in Procs :
        /\ pc[p] = "commit"
        /\ pc[q] = "begin"
        /\ call[p].user_id = call[q].user_id
        /\ call[p].client_request_id # call[q].client_request_id

\* C8: no two ledger entries share a client_request_id, at most one call
\* commits under a client_request_id, and balances and stock carry the effect
\* of each recorded client_request_id once -- also when two first calls with
\* the same id both pass the lookup before either commits.
C8_ClientRequestAppliedOnce ==
    /\ \A e1, e2 \in ledger :
          e1.client_request_id = e2.client_request_id => e1 = e2
    /\ \A r \in RequestIds : first[r].commits <= 1
    /\ \A r \in RequestIds :
          Cardinality({e \in ledger : e.client_request_id = r}) = first[r].commits
    /\ EveryCommittedCallCounted

\* Two calls with the same client_request_id both passed the lookup; one
\* committed, the INSERT of the other was refused.
C8_Witness ==
    \E p \in Procs :
        /\ resp[p].err = "IntegrityError"
        /\ resp[p].discarded

\* C9: a first-time purchase that finds inventory >= quantity passes the
\* stock check, one that finds balance >= price_cents * quantity passes the
\* funds check, and its commit decreases the buyer's balance by
\* price_cents * quantity and the product's inventory by quantity, and
\* returns total_cents = price_cents * quantity, unit_price_cents = the
\* product's price and new_balance_cents = the balance after the debit.
C9_PurchaseEffect ==
    [][\A p \in Procs :
         (call[p].op = "purchase" /\ Acts(p)
          /\ resp'[p].err # "StorageFailure") =>
            LET c == call[p]
                price == products[c.product_id].price_cents
            IN  /\ (pc[p] = "p_prod" /\ c.product_id \in ProductIds
                    /\ products[c.product_id].inventory >= c.quantity)
                      => pc'[p] = "p_bal"
                /\ (pc[p] = "p_bal"
                    /\ wallets[c.user_id] >= price * c.quantity)
                      => pc'[p] = "p_wallet"
                /\ pc[p] = "commit" =>
                      /\ resp'[p].status = "ok"
                      /\ wallets'[c.user_id] =
                            wallets[c.user_id] - price * c.quantity
                      /\ products'[c.product_id].inventory =
                            products[c.product_id].inventory - c.quantity
                      /\ resp'[p].total_cents = price * c.quantity
                      /\ resp'[p].unit_price_cents = price
                      /\ resp'[p].new_balance_cents = wallets'[c.user_id]]_vars

\* Scenario A: u_1002, holding 1200 cents, has bought one p_2001 at 899.
C9_Witness ==
    \E p \in Procs :
        /\ resp[p].op = "purchase"
        /\ resp[p].status = "ok"
        /\ ~resp[p].replay
        /\ resp[p].user_id = "u_1002"
        /\ resp[p].total_cents = 899
        /\ resp[p].new_balance_cents = 301

\* Every order is PLACED, has an item, and its total is quantity *
\* unit_price_cents of its item.
OrdersWellFormed ==
    \A o \in orders :
        /\ o.status = "PLACED"
        /\ \E i \in order_items : i.order_id = o.order_id
        /\ \A i \in order_items :
              i.order_id = o.order_id =>
                 o.total_cents = i.quantity * i.unit_price_cents

\* The step is a successful first-time purchase of p that creates exactly
\* one order, one item of it and one PURCHASE entry naming it.
CreatesOneOrder(p) ==
    /\ call[p].op = "purchase"
    /\ pc[p] = "commit"
    /\ resp'[p].status = "ok"
    /\ ~resp'[p].replay
    /\ \E o \in orders' \ orders, i \in order_items' \ order_items,
          e \in ledger' \ ledger :
          /\ orders' = orders \cup {o}
          /\ order_items' = order_items \cup {i}
          /\ ledger' = ledger \cup {e}
          /\ o.status = "PLACED"
          /\ o.order_id = resp'[p].order_id
          /\ o.total_cents = resp'[p].total_cents
          /\ i.order_id = o.order_id
          /\ e.kind = "PURCHASE"
          /\ e.amount_cents = -resp'[p].total_cents
          /\ e.order_id = o.order_id

\* C10: every successful first-time purchase creates exactly one PLACED
\* order, one order item for it and one PURCHASE ledger entry with
\* amount_cents = -total_cents whose metadata names the order; no other step
\* (a failed or replayed purchase, an add_funds) creates an order or an item;
\* and in every state each order has an item and
\* total_cents = quantity * unit_price_cents of its item.
C10_OneOrderPerPurchase ==
    /\ []OrdersWellFormed
    /\ [][/\ \A p \in Procs :
                (Acts(p) /\ call[p].op = "purchase" /\ resp'[p].status = "ok"
                 /\ ~resp'[p].replay) => CreatesOneOrder(p)
          /\ (orders' # orders \/ order_items' # order_items) =>
                \E p \in Procs : Acts(p) /\ CreatesOneOrder(p)]_vars

\* u_1001 has bought two p_2001: an order of 1798 cents besides the seeded
\* one.
C10_Witness ==
    \E o \in orders \ SeedOrders :
        /\ o.total_cents = 1798
        /\ \E i \in order_items : i.order_id = o.order_id /\ i.quantity = 2

\* C11: a first-time add_funds with amount_cents > 0 for an existing user
\* reaches BEGIN IMMEDIATE, and its commit increases that user's balance by
\* exactly amount_cents, leaves the other wallets alone, appends exactly one
\* ledger entry, of kind TOPUP, with that amount, user and client_request_id,
\* and returns added_cents = amount_cents and new_balance_cents = old balance
\* + amount_cents, which is what get_balance returns on the committed store.
C11_AddFundsEffect ==
    [][\A p \in Procs :
         /\ (pc[p] = "idle" /\ Acts(p) /\ call'[p].op = "add_funds"
             /\ first[call'[p].client_request_id].commits = 0
             /\ GetLedgerByClientRequest(Store, call'[p].client_request_id) = {})
               => pc'[p] = "begin"
         /\ (call[p].op = "add_funds" /\ pc[p] = "commit" /\ Acts(p)
             /\ resp'[p].err # "StorageFailure") =>
               LET c == call[p]
               IN  /\ resp'[p].status = "ok"
                   /\ wallets'[c.user_id] = wallets[c.user_id] + c.amount_cents
                   /\ \A u \in Users \ {c.user_id} : wallets'[u] = wallets[u]
                   /\ \E e \in ledger' \ ledger :
                         /\ ledger' = ledger \cup {e}
                         /\ e.kind = "TOPUP"
                         /\ e.amount_cents = c.amount_cents
                         /\ e.user_id = c.user_id
                         /\ e.client_request_id = c.client_request_id
                   /\ resp'[p].added_cents = c.amount_cents
                   /\ resp'[p].new_balance_cents =
                         wallets[c.user_id] + c.amount_cents
                   /\ GetBalanceResult(Store', c.user_id).balance_cents =
                         resp'[p].new_balance_cents]_vars

\* u_1002, holding 1200 cents, has added 800: the call returned 2000 and the
\* wallet holds 2000.
C11_Witness ==
    \E p \in Procs :
        /\ resp[p].op = "add_funds"
        /\ resp[p].status = "ok"
        /\ ~resp[p].replay
        /\ resp[p].user_id = "u_1002"
        /\ resp[p].added_cents = 800
        /\ resp[p].new_balance_cents = 2000
        /\ GetBalanceResult(Store, "u_1002").balance_cents = 2000

\* C12: an add_funds with amount_cents <= 0 or an unknown user_id, and a
\* purchase with quantity <= 0, an unknown user_id or an unknown product_id,
\* ends with an error, and no step of it changes wallets, products, orders,
\* order_items or ledger -- whether or not its client_request_id has been
\* recorded.
C12_InvalidInputFails ==
    [][\A p \in Procs :
         /\ (pc[p] = "idle" /\ Acts(p)) =>
               IF call'[p] = NoCall
                 THEN resp'[p].status = "error" /\ UNCHANGED store_vars
                 ELSE /\ call'[p].op = "add_funds" => call'[p].amount_cents > 0
                      /\ call'[p].op = "purchase" => call'[p].quantity > 0
                      /\ call'[p].user_id \in Users
         /\ (call[p].op = "purchase" /\ call[p].product_id \notin ProductIds
             /\ Acts(p)) =>
               /\ UNCHANGED store_vars
               /\ pc'[p] = "idle" => resp'[p].status = "error"]_vars

\* C13: a first-time purchase that reads an inventory below the requested
\* quantity fails there with the insufficient-inventory error, whatever the
\* buyer's balance is, and changes nothing; no purchase fails with
\* insufficient funds while the inventory is below its quantity.
C13_InventoryErrorFirst ==
    [][\A p \in Procs :
         /\ (call[p].op = "purchase" /\ pc[p] = "p_prod" /\ Acts(p)
             /\ resp'[p].err # "StorageFailure"
             /\ call[p].product_id \in ProductIds
             /\ products[call[p].product_id].inventory < call[p].quantity) =>
               /\ pc'[p] = "idle"
               /\ resp'[p].err = "InsufficientInventory"
               /\ UNCHANGED store_vars
         /\ (call[p].op = "purchase" /\ Acts(p)
             /\ resp'[p].err = "InsufficientFunds") =>
               products[call[p].product_id].inventory >= call[p].quantity]_vars

\* u_1002, left with less than the price of one unit of anything, was
\* refused for insufficient inventory.
C13_Witness ==
    \E p \in Procs :
        /\ resp[p].err = "InsufficientInventory"
        /\ resp[p].user_id = "u_1002"
        /\ wallets["u_1002"] < 899

\* C14: an idempotent replay returns new_balance_cents = the wallet balance
\* at the time of the replay; an add_funds replay returns added_cents = the
\* amount of the recorded ledger entry; and when the replaying user is the
\* user of the first call, new_balance_cents is the first call's
\* new_balance_cents plus the sum of the amounts committed on that wallet
\* since the first call.
C14_ReplayReportsCurrentBalance ==
    [][\A p \in Procs :
         (pc[p] = "replay" /\ Acts(p) /\ resp'[p].status = "ok") =>
            LET c == call[p]
                f == first[c.client_request_id]
            IN  /\ resp'[p].replay
                /\ resp'[p].new_balance_cents = wallets[c.user_id]
                /\ c.op = "add_funds" =>
                      \A e \in ledger :
                         e.client_request_id = c.client_request_id =>
                            resp'[p].added_cents = e.amount_cents
                /\ (f.commits = 1 /\ f.call.user_id = c.user_id) =>
                      resp'[p].new_balance_cents =
                         f.resp.new_balance_cents + f.later]_vars

\* An add_funds was replayed after another mutation of the same wallet had
\* been committed: the replay's new_balance_cents is the first call's plus
\* that amount.
C14_Witness ==
    \E p \in Procs, r \in RequestIds :
        /\ resp[p].replay
        /\ resp[p].status = "ok"
        /\ resp[p].op = "add_funds"
        /\ first[r].commits = 1
        /\ resp[p].tx_id = first[r].resp.tx_id
        /\ first[r].later # 0
        /\ resp[p].new_balance_cents =
              first[r].resp.new_balance_cents + first[r].later

\* The call c carries a client_request_id recorded by a committed purchase
\* of the same user with another product_id or quantity.
SameIdOtherArguments(c) ==
    LET f == first[c.client_request_id]
    IN  /\ c.op = "purchase"
        /\ f.commits = 1
        /\ f.call.op = "purchase"
        /\ f.call.user_id = c.user_id
        /\ (f.call.product_id # c.product_id \/ f.call.quantity # c.quantity)

\* C15: a purchase whose client_request_id was recorded by an earlier
\* successful purchase of the same user, with another product_id or
\* quantity, takes the replay path, changes no wallet, inventory, order,
\* item or ledger entry, and returns the order_id, product_id, quantity,
\* unit_price_cents and total_cents of the first call.
C15_ReplayIgnoresNewArguments ==
    [][\A p \in Procs :
         /\ (pc[p] = "idle" /\ Acts(p) /\ call'[p] # NoCall
             /\ SameIdOtherArguments(call'[p])) =>
               (pc'[p] = "replay" /\ UNCHANGED store_vars)
         /\ (pc[p] = "replay" /\ Acts(p) /\ SameIdOtherArguments(call[p])) =>
               LET f == first[call[p].client_request_id]
               IN  /\ UNCHANGED store_vars
                   /\ pc'[p] = "idle"
                   /\ resp'[p].status = "ok"
                   /\ resp'[p].order_id = f.resp.order_id
                   /\ resp'[p].product_id = f.call.product_id
                   /\ resp'[p].quantity = f.call.quantity
                   /\ resp'[p].unit_price_cents = f.resp.unit_price_cents
                   /\ resp'[p].total_cents = f.resp.total_cents]_vars

\* A purchase was answered with the order recorded under its
\* client_request_id by a purchase of the same user with other arguments.
C15_Witness ==
    \E p \in Procs, r \in RequestIds :
        /\ resp[p].replay
        /\ ~resp[p].repeat
        /\ resp[p].status = "ok"
        /\ resp[p].op = "purchase"
        /\ first[r].call.op = "purchase"
        /\ resp[p].order_id = first[r].resp.order_id
        /\ resp[p].user_id = first[r].call.user_id

\* Every response in hand that reports an order placed by a recorded
\* purchase -- a get_orders listing or a purchase replay -- reports the
\* unit_price_cents and total_cents that purchase returned.
ReportsOriginalPrice ==
    \A p \in Procs, r \in RequestIds :
        LET f == first[r].resp
        IN  (first[r].commits > 0 /\ first[r].call.op = "purchase"
             /\ resp[p].status = "ok") =>
               /\ (resp[p].op = "purchase" /\ resp[p].order_id = f.order_id) =>
                     /\ resp[p].unit_price_cents = f.unit_price_cents
                     /\ resp[p].total_cents = f.total_cents
               /\ resp[p].op = "get_orders" =>
                     \A k \in 1..Len(resp[p].orders) :
                        resp[p].orders[k].order_id = f.order_id =>
                           /\ resp[p].orders[k].total_cents = f.total_cents
                           /\ resp[p].orders[k].items # {}
                           /\ \A i \in resp[p].orders[k].items :
                                 i.unit_price_cents = f.unit_price_cents

\* C16: the unit_price_cents a purchase writes into its order item, and
\* returns, is the product's price_cents at the time of the purchase; no
\* later step, a price changed out of band included, changes an order item
\* or an order; and get_orders and an idempotent replay of the purchase
\* report that original unit_price_cents and total_cents whatever the
\* product's price has become.
C16_PriceSnapshot ==
    /\ []ReportsOriginalPrice
    /\ [][/\ \A p \in Procs :
                (call[p].op = "purchase" /\ pc[p] = "commit" /\ Acts(p)
                 /\ resp'[p].status = "ok") =>
                   /\ resp'[p].unit_price_cents =
                         products[call[p].product_id].price_cents
                   /\ \E i \in order_items' \ order_items :
                         /\ i.order_id = resp'[p].order_id
                         /\ i.unit_price_cents =
                               products[call[p].product_id].price_cents
          /\ \A i \in order_items : i \in order_items'
          /\ \A o \in orders : o \in orders']_vars

\* get_orders, called after the price of p_2001 went from 899 to 999, lists
\* an order placed at 999 and an earlier one still at 899.
C16_Witness ==
    \E p \in Procs :
        /\ resp[p].op = "get_orders"
        /\ resp[p].status = "ok"
        /\ \E j, k \in 1..Len(resp[p].orders) :
              /\ resp[p].orders[j].order_id # SeedOrderId
              /\ resp[p].orders[k].order_id # SeedOrderId
              /\ \E i \in resp[p].orders[j].items : i.unit_price_cents = 999
              /\ \E i \in resp[p].orders[k].items :
                    i.unit_price_cents = 899 /\ i.product_id = "p_2001"

\* C17: across every step of every operation of the tool interface (and of
\* an out-of-band price change), each order, order item and ledger entry
\* that exists before the step exists unchanged after it.
C17_AppendOnly ==
    [][/\ \A o \in orders : o \in orders'
       /\ \A i \in order_items : i \in order_items'
       /\ \A e \in ledger : e \in ledger']_vars

\* Two purchases were committed one after the other: the seeded order, item
\* and entry and those of the first purchase are still there next to those
\* of the second.
C17_Witness ==
    /\ SeedOrders \subseteq orders
    /\ SeedLedger \subseteq ledger
    /\ \E o1, o2 \in orders \ SeedOrders : o1.created_at < o2.created_at
    /\ Cardinality(order_items) = 3
    /\ Cardinality(ledger) = 3

\* The read accessors.
ReadOps == {"get_balance", "get_product", "search_products", "get_orders"}

\* C18: a step in which get_balance, get_product, search_products or
\* get_orders returns a value or fails with an error leaves wallets,
\* products, orders, order_items and ledger unchanged (users is never
\* written), takes no lock and leaves no write pending.
C18_ReadsChangeNothing ==
    [][\A p \in Procs :
         (pc[p] = "idle" /\ pc'[p] = "idle" /\ ncalls' # ncalls
          /\ resp'[p].op \in ReadOps) =>
            /\ resp'[p].status \in {"ok", "error"}
            /\ UNCHANGED <<store_vars, writer, pend>>]_vars

\* After a purchase was committed, one caller holds the orders get_orders
\* returned and the other the error of a get_product of an unknown product.
C18_Witness ==
    \E p, q \in Procs :
        /\ orders # SeedOrders
        /\ resp[p].op = "get_orders"
        /\ resp[p].status = "ok"
        /\ Len(resp[p].orders) = 2
        /\ resp[q].op = "get_product"
        /\ resp[q].status = "error"

\* A call of add_funds or purchase among the tool calls of a turn.
Mutators == {"add_funds", "purchase"}

\* C19: a turn of RuleAgent.handle calls add_funds or purchase at most once,
\* and only when a pending top-up (for add_funds) or a pending purchase (for
\* purchase) was left by an earlier turn and the whole message, trimmed and
\* lower-cased, is a YES word; the call carries the amount (the product_id
\* and quantity) and the client_request_id of that pending request; and a
\* turn without such a call leaves the store unchanged.
C19_MutatesOnlyOnConfirmation ==
    [][turn'.n # turn.n =>
         LET m == {k \in 1..Len(turn'.calls) : turn'.calls[k].op \in Mutators}
         IN  /\ Cardinality(m) <= 1
             /\ m = {} => UNCHANGED store_vars
             /\ \A k \in m :
                   LET c == turn'.calls[k]
                   IN  /\ Lower(Strip(turn'.text)) \in YES
                       /\ c.user_id = turn'.user_id
                       /\ c.op = "add_funds" =>
                             \E top \in rule.pending_topup :
                                /\ c.amount_cents = top.amount_cents
                                /\ c.client_request_id = top.topup_request_id
                       /\ c.op = "purchase" =>
                             /\ rule.pending_topup = {}
                             /\ \E pp \in rule.pending_purchase :
                                   /\ c.product_id = pp.product_id
                                   /\ c.quantity = pp.quantity
                                   /\ c.client_request_id =
                                         pp.purchase_request_id]_vars

\* The session topped up on a confirmation and, on a later confirmation, has
\* just placed an order.
C19_Witness ==
    /\ turn.reply.kind = "order_placed"
    /\ Len(turn.calls) = 1
    /\ turn.calls[1].op = "purchase"
    /\ \E e \in ledger : e.kind = "TOPUP" /\ e.user_id = turn.user_id
    /\ orders # SeedOrders

\* C20: the StoreAgent has executed purchase or add_funds only in a session
\* in which a message of the user was an explicit confirmation.
C20_NoMutationBeforeConfirmation ==
    \A k \in 1..Len(llm.dispatched) :
        llm.dispatched[k].name \in Mutators => llm.confirmed

\* C21: when a buy request was answered with a top-up offer and the next
\* turn's 'yes' added the offered amount, a 'yes' in the turn after that is
\* answered with the order placed.
C21_BuyYesYesPlacesOrder ==
    [][(/\ turn'.n = turn.n + 1
        /\ turn.before # <<>>
        /\ turn.before[Len(turn.before)] = "offer_topup"
        /\ turn.reply.kind = "added"
        /\ turn'.text = <<"y", "e", "s">>)
       => turn'.reply.kind = "order_placed"]_vars

\* C22: in auto mode, a turn in which the model call fails with a quota or
\* rate-limit error is answered by the RuleAgent, which handles the turn's
\* message, and locks the session to the RuleAgent; once locked, the session
\* stays locked and the StoreAgent is never called again.
C22_QuotaErrorLocksToRule ==
    [][/\ (/\ router.mode = "auto"
           /\ llm.step > 0
           /\ llm'.step = 0
           /\ IsQuotaError(llm'.err))
          => /\ router'.auto_locked_to_rule
             /\ router'.answered = "rule"
             /\ turn'.n = turn.n + 1
             /\ turn'.text = llm.text
       /\ router.auto_locked_to_rule
          => router'.auto_locked_to_rule /\ llm' = llm]_vars

(***************************************************************************)
(* A failed call and its client_request_id                                 *)
(***************************************************************************)
\* The ledger entries recorded under client_request_id r.
RecordedUnder(l, r) == {e \in l : e.client_request_id = r}

\* C23: the ledger records only completed mutations.  A purchase or
\* add_funds call that fails (validation error or rollback) leaves the
\* ledger as it was, so an id has an entry only when a call committed under
\* it; a later call with the id of a failed call finds nothing recorded,
\* goes on as a first call, and its commit adds the one entry of that id
\* and moves the wallet by that entry's amount.
C23_FailedCallRecordsNothing ==
    /\ [](\A r \in RequestIds :
             RecordedUnder(ledger, r) # {} <=> first[r].commits > 0)
    /\ [][\A p \in Procs :
             /\ (Acts(p) /\ resp'[p].status = "error") => ledger' = ledger
             /\ (/\ pc[p] = "idle"
                 /\ call'[p] # NoCall
                 /\ first[call'[p].client_request_id].refused
                 /\ first[call'[p].client_request_id].commits = 0)
                => /\ pc'[p] = "begin"
                   /\ loc'[p].existing = {}
             /\ (/\ pc[p] = "commit"
                 /\ resp'[p].status = "ok"
                 /\ first[call[p].client_request_id].refused
                 /\ first[call[p].client_request_id].commits = 0)
                => LET id == call[p].client_request_id
                       u == call[p].user_id
                   IN  /\ ~resp'[p].replay
                       /\ RecordedUnder(ledger, id) = {}
                       /\ Cardinality(RecordedUnder(ledger', id)) = 1
                       /\ \A e \in RecordedUnder(ledger', id) :
                             /\ e.user_id = u
                             /\ wallets'[u] = wallets[u] + e.amount_cents
                             /\ ledger' = ledger \cup {e}]_vars

\* purchase(u_1002, p_2002, 1, "r1") was refused for insufficient funds,
\* 800 cents were added, and the same purchase under "r1" then committed as
\* a first call: one PURCHASE entry under "r1", one unit sold, 1 cent left.
C23_Witness ==
    /\ first["r1"].refused
    /\ first["r1"].commits = 1
    /\ first["r1"].call = Purchase("u_1002", "p_2002", 1, "r1")
    /\ \E p \in Procs : resp[p].err = "InsufficientFunds"
    /\ \E e \in ledger : e.client_request_id = "r1" /\ e.amount_cents = -1999
    /\ wallets["u_1002"] = 1
    /\ products["p_2002"].inventory = 11

(***************************************************************************)
(* get_orders                                                              *)
(***************************************************************************)
\* The stored rows of order_items of an order, as get_orders reports them.
StoredItems(order_id) ==
    {[product_id |-> x.product_id, name |-> products[x.product_id].name,
      quantity |-> x.quantity, unit_price_cents |-> x.unit_price_cents] :
        x \in {i \in order_items : i.order_id = order_id}}

\* C24: get_orders(user_id, limit) fails when limit < 1 or limit > 50
\* (whoever the user is) or when the user is unknown; otherwise it returns
\* at most limit orders, each a stored order of user_id, ordered by
\* created_at descending, each with exactly its stored order items.
C24_GetOrders ==
    \A a \in OrdersArgs :
        LET user_id == a[1]
            limit == a[2]
            r == GetOrdersResult(Store, user_id, limit)
        IN  IF limit < 1 \/ limit > 50
              THEN r.status = "error" /\ r.err = "InvalidLimit"
            ELSE IF user_id \notin Users
              THEN r.status = "error" /\ r.err = "UnknownUser"
            ELSE /\ r.status = "ok"
                 /\ r.user_id = user_id
                 /\ Len(r.orders) <= limit
                 /\ \A k \in 1..Len(r.orders) :
                       /\ \E o \in orders :
                             /\ o.user_id = user_id
                             /\ o.order_id = r.orders[k].order_id
                             /\ o.created_at = r.orders[k].created_at
                             /\ o.status = r.orders[k].status
                             /\ o.total_cents = r.orders[k].total_cents
                       /\ r.orders[k].items = StoredItems(r.orders[k].order_id)
                 /\ \A j, k \in 1..Len(r.orders) :
                       j < k => /\ r.orders[j].created_at >= r.orders[k].created_at
                                /\ r.orders[j].order_id # r.orders[k].order_id

\* get_orders("u_1001", 1) returned one order, the newer one, with its
\* item, while u_1001 has two orders.
C24_Witness ==
    \E p \in Procs :
        /\ resp[p].op = "get_orders"
        /\ resp[p].status = "ok"
        /\ resp[p].user_id = "u_1001"
        /\ Len(resp[p].orders) = 1
        /\ resp[p].orders[1].order_id # SeedOrderId
        /\ resp[p].orders[1].items # {}
        /\ Cardinality({o \in orders : o.user_id = "u_1001"}) = 2

(***************************************************************************)
(* search_products                                                         *)
(***************************************************************************)
\* C25: search_products(query) returns, ordered by name ascending, the
\* whole catalog when query is absent or blank; otherwise exactly the
\* products whose lower-cased name contains the trimmed lower-cased query as
\* a substring; and only when there is none, exactly the products whose name
\* contains one of the query's words (split on whitespace and '-', the
\* trailing s of a word longer than 3 characters removed).
C25_SearchProducts ==
    \A query \in Queries :
        LET r == SearchProductsResult(Store, query)
            all == DOMAIN products
            q_raw == Lower(Strip(query))
            split == Split(ReplaceChar(q_raw, "-", " "))
            words == {StripPlural(split[i]) : i \in 1..Len(split)}
            direct == {x \in all : Contains(Lower(products[x].name), q_raw)}
            byWord == {x \in all :
                          \E w \in words : Contains(Lower(products[x].name), w)}
            expected == IF query = None \/ Strip(query) = <<>> THEN all
                        ELSE IF direct # {} THEN direct
                        ELSE byWord
        IN  /\ r.status = "ok"
            /\ {r.products[k].product_id : k \in 1..Len(r.products)} = expected
            /\ Len(r.products) = Cardinality(expected)
            /\ \A k \in 1..Len(r.products) :
                  r.products[k] = RowToProduct(Store, r.products[k].product_id)
            /\ \A j, k \in 1..Len(r.products) :
                  j < k => TextLess(r.products[j].name, r.products[k].name)

(***************************************************************************)
(* A call refused the write lock                                           *)
(***************************************************************************)
\* C26: a call at BEGIN IMMEDIATE while another call holds the write lock
\* does not wait forever; the step in which it is refused the lock raises
\* the busy error and changes no table, lock or pending write; and a call
\* that commits under a client_request_id nothing was committed under --
\* such as the retry of the refused call -- adds the one ledger entry of
\* that id and moves the wallet by its amount, no id ever having more than
\* one entry.
C26_BusyCallFailsAndRetryAppliesOnce ==
    /\ \A p \in Procs :
          (pc[p] = "begin" /\ writer \notin {"", p}) ~> (pc[p] # "begin")
    /\ [](\A r \in RequestIds :
             /\ Cardinality(RecordedUnder(ledger, r)) = first[r].commits
             /\ first[r].commits <= 1)
    /\ [][\A p \in Procs :
             /\ (/\ pc[p] = "begin"
                 /\ writer \notin {"", p}
                 /\ Acts(p))
                => /\ resp'[p].status = "error"
                   /\ resp'[p].err = "Busy"
                   /\ pc'[p] = "idle"
                   /\ UNCHANGED <<store_vars, writer>>
                   /\ \A q \in Procs \ {p} : pend'[q] = pend[q]
             /\ (/\ pc[p] = "commit"
                 /\ resp'[p].status = "ok"
                 /\ first[call[p].client_request_id].commits = 0)
                => LET id == call[p].client_request_id
                       u == call[p].user_id
                   IN  /\ Cardinality(RecordedUnder(ledger', id)) = 1
                       /\ \A e \in RecordedUnder(ledger', id) :
                             /\ ledger' = ledger \cup {e}
                             /\ wallets'[u] = wallets[u] + e.amount_cents]_vars

\* add_funds under "r1" was refused the lock held by the purchase under
\* "r2"; the purchase ended, and the caller that had made it then called
\* add_funds under "r1" again: 800 cents were added once.
C26_Witness ==
    \E p, q \in Procs :
        /\ resp[q].err = "Busy"
        /\ resp[q].op = "add_funds"
        /\ resp[q].blocked_by = "r2"
        /\ resp[p].status = "ok"
        /\ resp[p].op = "add_funds"
        /\ ~resp[p].replay
        /\ first["r1"].commits = 1
        /\ Cardinality(RecordedUnder(ledger, "r1")) = 1
        /\ wallets["u_1002"] \in {2000, 1101}

(***************************************************************************)
(* The idempotency lookup and the transaction                              *)
(***************************************************************************)
\* C27: the lookup of client_request_id runs inside the transaction of the
\* update and the insert: a call that has looked its id up and found
\* nothing holds the write lock, so no other call records that id before
\* the call's own insert is committed, and no call fails on the ledger's
\* uniqueness constraint -- of two concurrent calls with the same id the
\* second to commit returns the first's outcome.
C27_LookupInsideTransaction ==
    /\ [](\A p \in Procs :
             /\ pc[p] \notin {"idle", "replay"} => writer = p
             /\ resp[p].err # "IntegrityError")
    /\ [][\A p \in Procs :
             pc[p] \notin {"idle", "replay"} =>
                \A e \in ledger' \ ledger :
                   e.client_request_id = call[p].client_request_id
                      => pc[p] = "commit" /\ pc'[p] = "idle"]_vars

(***************************************************************************)
(* The sign of ledger amounts                                              *)
(***************************************************************************)
\* C28 as stated: every TOPUP entry has amount_cents > 0 and every PURCHASE
\* entry has amount_cents < 0, whatever the price (0 included) and the
\* quantity (> 0) of the purchase.
C28_LedgerSigns ==
    \A e \in ledger :
        /\ e.kind = "TOPUP" => e.amount_cents > 0
        /\ e.kind = "PURCHASE" => e.amount_cents < 0

\* C28, amended: every TOPUP entry has amount_cents > 0; every PURCHASE
\* entry has amount_cents = -(unit_price_cents * quantity) of its order's
\* item, with unit_price_cents >= 0 and quantity > 0: never positive,
\* negative when the price was positive, and 0 when the price was 0.
C28_LedgerSignsByPrice ==
    \A e \in ledger :
        /\ e.kind \in {"TOPUP", "PURCHASE"}
        /\ e.kind = "TOPUP" => e.amount_cents > 0
        /\ e.kind = "PURCHASE" =>
              /\ e.amount_cents <= 0
              /\ \E i \in order_items :
                    /\ i.order_id = e.order_id
                    /\ i.quantity > 0
                    /\ i.unit_price_cents >= 0
                    /\ e.amount_cents = -(i.unit_price_cents * i.quantity)
                    /\ e.amount_cents < 0 <=> i.unit_price_cents > 0

\* One unit of p_2001 was bought after its price had been set to 0: a
\* PURCHASE entry of amount 0 next to a TOPUP entry of 800.
C28_Witness ==
    /\ \E e \in ledger :
          /\ e.kind = "PURCHASE"
          /\ e.amount_cents = 0
          /\ e.quantity = 1
    /\ \E e \in ledger : e.kind = "TOPUP" /\ e.amount_cents = 800
    /\ products["p_2001"].price_cents = 0

(***************************************************************************)
(* What add_funds and purchase leave alone                                 *)
(***************************************************************************)
\* The call that caller p is making in this step: the one in progress, or
\* the one it starts.
ActingCall(p) == IF call[p] # NoCall THEN call[p] ELSE call'[p]

\* C29: no step of an add_funds call changes a product (inventory, price,
\* name), an order, an order item or the wallet of another user; no step of
\* a purchase call changes the wallet of another user, the inventory of
\* another product, or the price_cents or name of any product.
C29_FrameOfMutators ==
    [][\A p \in Procs :
         Acts(p) =>
            LET c == ActingCall(p)
            IN  /\ c.op = "add_funds" =>
                      /\ products' = products
                      /\ orders' = orders
                      /\ order_items' = order_items
                      /\ \A u \in Users \ {c.user_id} : wallets'[u] = wallets[u]
                /\ c.op = "purchase" =>
                      /\ \A u \in Users \ {c.user_id} : wallets'[u] = wallets[u]
                      /\ \A i \in ProductIds \ {c.product_id} :
                            products'[i] = products[i]
                      /\ \A i \in ProductIds :
                            /\ products'[i].price_cents = products[i].price_cents
                            /\ products'[i].name = products[i].name
                /\ c.op \notin {"add_funds", "purchase"} => UNCHANGED store_vars]_vars

\* u_1002 has topped up and u_1001 has bought p_2001: the wallet of each is
\* the seeded balance changed by their own call alone, p_2002 is as seeded,
\* and p_2001 has its seeded price and name.
C29_Witness ==
    /\ \E e \in ledger :
          e.kind = "TOPUP" /\ e.user_id = "u_1002" /\ e.amount_cents = 800
    /\ \E e \in ledger \ SeedLedger :
          e.kind = "PURCHASE" /\ e.user_id = "u_1001" /\ e.product_id = "p_2001"
    /\ wallets["u_1002"] = 2000
    /\ wallets["u_1001"] < 2500
    /\ products["p_2002"] = SeedProducts["p_2002"]
    /\ products["p_2001"].inventory < SeedProducts["p_2001"].inventory
    /\ products["p_2001"].price_cents = SeedProducts["p_2001"].price_cents
    /\ products["p_2001"].name = SeedProducts["p_2001"].name

(***************************************************************************)
(* A pending request that is not confirmed                                 *)
(***************************************************************************)
\* The replies of the session's turns so far, oldest first.
Replies == IF turn.n = 0 THEN <<>> ELSE Append(turn.before, turn.reply.kind)

\* Turn j cancelled the request proposed in turn k: every turn between them
\* was answered with the request to reply yes or no.
CancelledAt(k, j, proposed, asked, cancelled) ==
    /\ k < j
    /\ Replies[k] \in proposed
    /\ Replies[j] = cancelled
    /\ \A m \in (k + 1)..(j - 1) : Replies[m] = asked

\* The client_request_ids of the requests the user has cancelled.
CancelledRequestIds ==
    {TopupRequestId(k) : k \in
        {k \in 1..Len(Replies) : \E j \in 1..Len(Replies) :
            CancelledAt(k, j, {"offer_topup", "confirm_topup"},
                        "confirm_topup_or_cancel", "topup_cancelled")}}
    \cup
    {PurchaseRequestId(k) : k \in
        {k \in 1..Len(Replies) : \E j \in 1..Len(Replies) :
            CancelledAt(k, j, {"confirm_purchase"},
                        "confirm_purchase_or_cancel", "purchase_cancelled")}}

\* C30: while a top-up or a purchase is pending, a message that is neither
\* a YES word nor a NO word leaves the pending request as it is and calls no
\* tool; a NO word clears the pending request and calls no tool either; and
\* no ledger entry is ever recorded under the client_request_id of a
\* cancelled request, whatever is typed afterwards.
C30_UnconfirmedPendingRequest ==
    /\ [](\A id \in CancelledRequestIds : RecordedUnder(ledger, id) = {})
    /\ [][(turn'.n = turn.n + 1 /\ rule # NoPending) =>
            LET tl == Lower(Strip(turn'.text))
            IN  /\ (tl \notin YES /\ tl \notin NO) =>
                      /\ rule' = rule
                      /\ turn'.calls = <<>>
                      /\ UNCHANGED store_vars
                /\ tl \in NO =>
                      /\ rule' = NoPending
                      /\ turn'.calls = <<>>
                      /\ UNCHANGED store_vars]_vars

\* "buy mouse" was answered with the offer of a top-up, "hello" with the
\* request to reply yes or no, "no" cancelled the top-up, and "yes" then
\* executed nothing: the ledger is the seeded one.
C30_Witness ==
    /\ turn.n = 4
    /\ turn.before = <<"offer_topup", "confirm_topup_or_cancel", "topup_cancelled">>
    /\ turn.text = <<"y", "e", "s">>
    /\ turn.calls = <<>>
    /\ TopupRequestId(1) \in CancelledRequestIds
    /\ rule = NoPending
    /\ ledger = SeedLedger
    /\ wallets = SeedWallets

(***************************************************************************)
(* One pending request at a time                                           *)
(***************************************************************************)
\* C31: a RuleAgent never holds a pending top-up and a pending purchase at
\* once, each field holds at most one request, and a turn sets a pending
\* field only when it starts with neither set.
C31_OnePendingRequest ==
    /\ [](/\ rule.pending_topup = {} \/ rule.pending_purchase = {}
          /\ Cardinality(rule.pending_topup) <= 1
          /\ Cardinality(rule.pending_purchase) <= 1)
    /\ [][(\/ rule'.pending_topup \notin {{}, rule.pending_topup}
           \/ rule'.pending_purchase \notin {{}, rule.pending_purchase})
          => rule = NoPending]_vars

\* A top-up was proposed and confirmed, then a purchase was proposed: the
\* purchase is pending, no top-up is.
C31_Witness ==
    /\ turn.before = <<"confirm_topup", "added">>
    /\ turn.reply.kind = "confirm_purchase"
    /\ rule.pending_purchase # {}
    /\ rule.pending_topup = {}

(***************************************************************************)
(* A pending request under the ChatRouter                                  *)
(***************************************************************************)
\* C32: in auto mode, not locked to rule, while the RuleAgent holds a
\* pending top-up or purchase, a message that is a YES word or a NO word is
\* answered by the RuleAgent: the turn is a turn of RuleAgent.handle.
C32_PendingAnswerGoesToRuleAgent ==
    [][(/\ router.mode = "auto"
        /\ ~router.auto_locked_to_rule
        /\ rule # NoPending
        /\ router'.turns = router.turns + 1)
       => LET text == IF router'.answered = "rule" THEN turn'.text
                                                   ELSE llm'.text
          IN  Lower(Strip(text)) \in YES \cup NO
                 => /\ router'.answered = "rule"
                    /\ turn'.n = turn.n + 1
                    /\ llm' = llm]_vars

(***************************************************************************)
(* A generated client_request_id is used once                              *)
(***************************************************************************)
\* Turn j passed to the core the request proposed in turn k: every turn
\* between them was answered with the request to reply yes or no, and turn
\* j ended with the call's result or with what it raised.
PassedAt(k, j, proposed, asked, done) ==
    /\ k < j
    /\ Replies[k] \in proposed
    /\ Replies[j] \in {done, "raised"}
    /\ \A m \in (k + 1)..(j - 1) : Replies[m] = asked

\* The client_request_ids the RuleAgent has passed to add_funds or purchase.
PassedRequestIds ==
    {TopupRequestId(k) : k \in
        {k \in 1..Len(Replies) : \E j \in 1..Len(Replies) :
            PassedAt(k, j, {"offer_topup", "confirm_topup"},
                     "confirm_topup_or_cancel", "added")}}
    \cup
    {PurchaseRequestId(k) : k \in
        {k \in 1..Len(Replies) : \E j \in 1..Len(Replies) :
            PassedAt(k, j, {"confirm_purchase"},
                     "confirm_purchase_or_cancel", "order_placed")}}

\* The client_request_id of the pending request of RuleAgent fields r.
PendingRequestIds(r) ==
    {x.topup_request_id : x \in r.pending_topup}
    \cup {x.purchase_request_id : x \in r.pending_purchase}

\* C33: a turn of the RuleAgent that calls add_funds or purchase makes that
\* one call, under the client_request_id of the pending request, an id it
\* has not passed to the core before, and ends with nothing pending whether
\* the call returned or raised; an id once passed is never pending again, so
\* no later message executes it.
C33_RequestIdPassedOnce ==
    /\ [](PendingRequestIds(rule) \cap PassedRequestIds = {})
    /\ [][\A k \in 1..Len(turn'.calls) :
             (turn'.n = turn.n + 1 /\ turn'.calls[k].op \in Mutators) =>
                /\ Len(turn'.calls) = 1
                /\ PendingRequestIds(rule) = {turn'.calls[k].client_request_id}
                /\ turn'.calls[k].client_request_id \notin PassedRequestIds
                /\ turn'.calls[k].client_request_id \in PassedRequestIds'
                /\ rule' = NoPending]_vars

\* "buy cable" was answered with the request to confirm, "yes" called
\* purchase, which raised and changed nothing, and a second "yes" called no
\* tool: no order was placed.
C33_Witness ==
    /\ turn.before = <<"confirm_purchase", "raised">>
    /\ turn.text = <<"y", "e", "s">>
    /\ turn.calls = <<>>
    /\ turn.reply.kind = "help"
    /\ PurchaseRequestId(1) \in PassedRequestIds
    /\ rule = NoPending
    /\ orders = SeedOrders
    /\ ledger = SeedLedger


(***************************************************************************)
(* A client_request_id reused across operations                            *)
(***************************************************************************)
\* C34: every successful add_funds response reports added_cents > 0 and the
\* tx_id of a TOPUP ledger entry, and every purchase call that finds its
\* client_request_id recorded returns a purchase response -- also when the
\* id given to add_funds was recorded by a purchase, or the id given to
\* purchase was recorded by a top-up.
C34_ReplayOfTheSameOperation ==
    /\ [](\A p \in Procs :
             (resp[p].op = "add_funds" /\ resp[p].status = "ok") =>
                /\ resp[p].added_cents > 0
                /\ \E e \in ledger : /\ e.tx_id = resp[p].tx_id
                                     /\ e.kind = "TOPUP")
    /\ [][\A p \in Procs :
             (pc[p] = "replay" /\ call[p].op = "purchase" /\ Acts(p)) =>
                /\ pc'[p] = "idle"
                /\ resp'[p].op = "purchase"
                /\ resp'[p].status = "ok"
                /\ resp'[p].order_id # NoId]_vars


(***************************************************************************)
(* A client_request_id reused across users                                 *)
(***************************************************************************)
\* C35: an idempotent replay response of add_funds or purchase for user U
\* is built only from a ledger entry, and an order, that belong to U: the
\* tx_id it returns is not the tx_id of another user's entry and the
\* order_id it returns is not the id of another user's order.
C35_ReplayOfTheSameUser ==
    [][\A p \in Procs :
         (pc[p] = "replay" /\ Acts(p) /\ resp'[p].status = "ok") =>
            /\ \A e \in loc[p].existing : e.user_id = call[p].user_id
            /\ \A e \in ledger :
                  e.tx_id = resp'[p].tx_id => e.user_id = call[p].user_id
            /\ \A o \in orders :
                  o.order_id = resp'[p].order_id
                     => o.user_id = call[p].user_id]_vars


(***************************************************************************)
(* Concurrent calls end                                                    *)
(***************************************************************************)
\* C36: concurrent add_funds and purchase calls never deadlock.  The write
\* lock is the only lock: a call holds it exactly from BEGIN IMMEDIATE to
\* the end of its commit or rollback, and holds no lock while it waits for
\* it; the step that gives the lock up ends the call with a result or an
\* error and leaves the lock free; a held lock is eventually released; and
\* under fair scheduling every started call eventually returns.
C36_CallsEnd ==
    /\ [](\A p \in Procs : writer = p <=> pc[p] \in InTransaction)
    /\ [][\A p \in Procs :
             (writer = p /\ writer' # p) =>
                /\ writer' = ""
                /\ pc'[p] = "idle"
                /\ pend'[p] = NoWrites
                /\ \/ resp'[p].status = "ok" /\ pc[p] = "commit"
                   \/ resp'[p].status = "error" /\ UNCHANGED store_vars]_vars
    /\ \A p \in Procs : (writer = p) ~> (writer = "")
    /\ \A p \in Procs :
          (pc[p] # "idle") ~> (pc[p] = "idle"
                               /\ resp[p].status \in {"ok", "error"})

\* The purchase under "r2" took the lock, failed inside its transaction
\* and rolled back; the add_funds that met the held lock was refused it;
\* both calls have returned and the lock is free.
C36_Witness ==
    \E p, q \in Procs :
        /\ resp[p].op = "purchase"
        /\ resp[p].err = "StorageFailure"
        /\ resp[p].discarded
        /\ resp[q].op = "add_funds"
        /\ resp[q].err = "Busy"
        /\ resp[q].blocked_by = "r2"
        /\ pc[p] = "idle"
        /\ pc[q] = "idle"
        /\ writer = ""
        /\ ledger = SeedLedger


(***************************************************************************)
(* The loop of _chat_gemini                                                *)
(***************************************************************************)
\* C37: _chat_gemini ends for every sequence of model responses.  It calls
\* the model at most StepLimit times per user message; a response with
\* function calls has its calls executed, a raising one giving an error
\* payload, and leads to the next call of the model, or, when it is the
\* StepLimit-th response, to the reply 'step limit reached'; a turn ends
\* otherwise only on a response without function calls (text, empty, no
\* candidate) or when generate itself raised -- never because a function
\* call of the model raised.
C37_ChatGeminiEnds ==
    /\ [](llm.step \in 0..StepLimit)
    /\ [][(llm' # llm /\ llm.step >= 1) =>
             \/ /\ llm.step < StepLimit
                /\ llm'.step = llm.step + 1
                /\ llm'.dispatched # <<>>
                /\ \A k \in 1..Len(llm'.dispatched) :
                      llm'.dispatched[k].payload \in {"result", "error"}
             \/ /\ llm.step = StepLimit
                /\ llm'.step = 0
                /\ llm'.dispatched # <<>>
                /\ llm'.reply = "step_limit_reached"
             \/ /\ llm'.step = 0
                /\ llm'.dispatched = <<>>
                /\ llm'.err = <<>>
                /\ llm'.reply \in {"text", "empty_response",
                                   "no_valid_response"}
             \/ /\ llm'.step = 0
                /\ llm'.dispatched = <<>>
                /\ llm'.err # <<>>
                /\ llm'.reply \in {"quota", "raised"}]_vars

=============================================================================
